---- MODULE Spec2Model ----
(***************************************************************************)
(* State-machine model of the image registration repository:               *)
(*   core/image_registration.py       ImageRegistration (5-band groups)    *)
(*   core/dual_image_registration.py  DualImageRegistration (two images)   *)
(*   core/metadata_utils.py           MetadataManager                      *)
(*   utils/utils.py, main.py, gui/main_window.py                           *)
(*                                                                         *)
(* The external primitives (ORB detection, the RANSAC solver, SLIC, phase  *)
(* correlation, the raster readers and writers) are not computed: each     *)
(* call draws its outcome from a small set inside the action that makes    *)
(* the call, and the code around the call is translated as written.        *)
(***************************************************************************)
EXTENDS Integers, Sequences, FiniteSets, TLC

VARIABLES
    entry,                  \* which entry point of the program this run exercises
    registration_method,    \* ImageRegistration.registration_method
    reference_band,         \* ImageRegistration.reference_band (0-based)
    preserve_metadata,      \* ImageRegistration.preserve_metadata
    band_paths,             \* argument of process_image_group: the files of the group
    file_meta,              \* what the files at band_paths hold as spatial metadata
    pc,                     \* position inside process_image_group / register_bands
    bands,                  \* register_bands: loaded grids
    metadata_list,          \* register_bands: loaded metadata
    validation,             \* what validate_spatial_consistency returned to register_bands
    processed_bands,        \* register_bands: preprocessed grids
    reference_pre,          \* register_bands: local reference_band (preprocessed grid)
    registered_bands,       \* register_bands: output grids
    registration_matrices,  \* register_bands: output matrices
    band_methods,           \* register_bands: method logged per band
    rsb,                    \* locals of the running register_single_band call
    rsb_calls,              \* arguments of every register_single_band call of this group
    result,                 \* return value of process_image_group
    output_file,            \* what is stored at output_path
    selected_paths,         \* the GUI's selection handed to process_dual_registration
    dual_cfg,               \* DualImageRegistration's configuration
    dual,                   \* locals of the running register_images call
    dual_calls,             \* number of register_images calls made
    cli,                    \* locals of main.py's main()
    out_dir,                \* the names of the files in the output directory
    utr,                    \* a call of update_transform_for_registration: arguments, outcome
    vsc,                    \* a call of validate_spatial_consistency: argument, return value
    call,                   \* a call of one other function: its name, arguments, outcome
    gui,                    \* MainWindow's batch: processing_active, the worker thread
    logger,                 \* a ProjectLogger: its lock, handlers, file, and the threads using it
    project                 \* a ProjectManager, and the project folders on disk

\* the state of ImageRegistration and of its running call, but for pc
groupVars2 == <<registration_method, reference_band, preserve_metadata, band_paths,
                file_meta, bands, metadata_list, validation, processed_bands,
                reference_pre, registered_bands, registration_matrices, band_methods,
                rsb, rsb_calls, result, output_file>>

dualVars == <<selected_paths, dual_cfg, dual, dual_calls>>

cfgVars == <<registration_method, reference_band, preserve_metadata, band_paths, file_meta>>

loadVars == <<bands, metadata_list, validation, processed_bands, reference_pre>>

outVars == <<registered_bands, registration_matrices, band_methods>>

cliVars == <<cli, out_dir>>

fnVars == <<utr, vsc, call, gui>>

vars == <<entry, pc, groupVars2, dualVars, cliVars, fnVars, logger, project>>

----------------------------------------------------------------------------
(* Bounds of the model *)

\* phase correlation reports shifts (s, -s) for s in 0..MaxShift
MaxShift == 0
\* group lengths range over NumBands-MaxLenDelta .. NumBands+MaxLenDelta
MaxLenDelta == 1
\* counts fed to the thresholds range up to threshold+MaxOver
MaxOver == 1
\* positions 1..MaxDevBand of a group may carry deviating metadata
MaxDevBand == 1
\* image sides range over MinDim..MaxDim
MinDim == 2
MaxDim == 3
\* the command line finds up to MaxGroups groups
MaxGroups == 2
\* translations of the composed transforms range over -MaxT..MaxT
MaxT == 1
\* a band's transform coefficient deviates by 0..MaxCoef units of 1e-10
MaxCoef == 2

(* Program constants *)
NumBands == 5
MinDescriptors == 10
MinMatches == 10
MinPoints == 6
MinInliers == 6
MinSlicPairs == 6
NumCandidates == 10
MaxGoodMatches == 100
TransformTol == 1      \* 1e-10, the unit of the modelled affine coefficients

None == <<>>           \* Python None where a matrix or a transform is expected
NoDescriptors == 0 - 1 \* detectAndCompute returned des = None
NoExit == 0 - 1        \* main() has not exited

Methods == {"features", "slic", "hybrid", "phase"}

Abs(x) == IF x < 0 THEN 0 - x ELSE x

----------------------------------------------------------------------------
(* Files and grids *)

\* a path is known by the band number its name ends with (0: no _<n>.tif suffix)
\* and by whether the file exists
Path(n, e) == [num |-> n, exists |-> e]

SortedGroup(n) == [i \in 1..n |-> Path(i, TRUE)]

BandGroups ==
    LET lens == (NumBands - MaxLenDelta)..(NumBands + MaxLenDelta)
        whole == {SortedGroup(n) : n \in lens}
        renum == {[SortedGroup(NumBands) EXCEPT ![k] = Path(v, TRUE)] :
                     k \in 1..NumBands, v \in 0..(NumBands + 1)}
        missing == {[SortedGroup(NumBands) EXCEPT ![k] = Path(k, FALSE)] :
                     k \in 1..NumBands}
    IN  whole \cup renum \cup missing

BaseMeta == [crs |-> 1, width |-> 4, height |-> 3, transform |-> <<0, 0, 0, 0, 0, 0>>]

\* a grid is known by the band it was read from, what was done to it, and its
\* shape <<rows, columns>>
Raw(i) == [kind |-> "raw", band |-> i, T |-> None,
           shape |-> <<BaseMeta.height, BaseMeta.width>>]

\* metadata when extraction failed (extract_metadata's except branch)
FallbackMeta == [crs |-> 0, width |-> 0, height |-> 0, transform |-> None]

EmptyMeta == [crs |-> 0, width |-> 0, height |-> 0, transform |-> None]

MetaVariants ==
    { [BaseMeta EXCEPT !.crs = 2],
      [BaseMeta EXCEPT !.width = 5],
      [BaseMeta EXCEPT !.transform = <<0, 0, 2, 0, 0, 0>>],
      FallbackMeta }

\* the shape of the grid read from a file with metadata m (a file whose
\* metadata extraction failed still reads as a grid)
GridShape(m) == IF m.width = 0 THEN <<BaseMeta.height, BaseMeta.width>>
                ELSE <<m.height, m.width>>

GroupMetas(n) ==
    LET base == [i \in 1..n |-> BaseMeta]
    IN  {base} \cup {[base EXCEPT ![k] = m] :
                        k \in 1..(IF MaxDevBand < n THEN MaxDevBand ELSE n),
                        m \in MetaVariants}

----------------------------------------------------------------------------
(* utils/utils.py *)

validate_image_group(file_paths) ==
    IF Len(file_paths) # NumBands THEN FALSE
    ELSE IF \E i \in 1..Len(file_paths) : ~file_paths[i].exists THEN FALSE
    ELSE LET band_numbers == {file_paths[i].num : i \in
                                 {j \in 1..Len(file_paths) : file_paths[j].num # 0}}
         IN  band_numbers = 1..NumBands

----------------------------------------------------------------------------
(* core/metadata_utils.py *)

validate_spatial_consistency(ml) ==
    IF Len(ml) = 0 THEN FALSE
    ELSE LET reference == ml[1]
         IN  \A i \in 2..Len(ml) :
                /\ ml[i].crs = reference.crs
                /\ ~(ml[i].width # reference.width \/ ml[i].height # reference.height)
                /\ (ml[i].transform # None /\ reference.transform # None) =>
                      \A j \in 1..6 :
                         ~(Abs(ml[i].transform[j] - reference.transform[j]) > TransformTol)

\* An affine map is the tuple <<a, b, c, d, e, f>> of
\*    x' = a x + b y + c,   y' = d x + e y + f
\* which is also the row-major reading of a 2x3 matrix [[a, b, tx], [c, d, ty]].

Det(t) == t[1] * t[5] - t[2] * t[4]

\* the operator * of line 453: P * Q applies Q first
AffineMul(p, q) ==
    << p[1] * q[1] + p[2] * q[4],
       p[1] * q[2] + p[2] * q[5],
       p[1] * q[3] + p[2] * q[6] + p[3],
       p[4] * q[1] + p[5] * q[4],
       p[4] * q[2] + p[5] * q[5],
       p[4] * q[3] + p[5] * q[6] + p[6] >>

\* the operator ~ of line 453 on a map of determinant 1 or -1, where 1/det = det
AffineInv(t) ==
    LET idet == Det(t)
        ra == t[5] * idet
        rb == (0 - t[2]) * idet
        rd == (0 - t[4]) * idet
        re == t[1] * idet
    IN  << ra, rb, (0 - t[3]) * ra - t[6] * rb,
           rd, re, (0 - t[3]) * rd - t[6] * re >>

\* the image of the point <<x, y>>
AffineApply(t, p) == << t[1] * p[1] + t[2] * p[2] + t[3],
                        t[4] * p[1] + t[5] * p[2] + t[6] >>

Returned(v) == [raised |-> FALSE, value |-> v]

Raised == [raised |-> TRUE, value |-> None]

\* line 453 with the factors exchanged
compose_try_reversed(original_transform, registration_matrix) ==
    IF Len(registration_matrix) # 6 THEN Raised
    ELSE IF Det(registration_matrix) = 0 THEN Raised
    ELSE Returned(AffineMul(AffineInv(registration_matrix), original_transform))

\* lines 441-457, the body of the try: unpacking two rows of three raises on any
\* other shape, ~ raises on a degenerate map
compose_try(original_transform, registration_matrix) ==
    IF Len(registration_matrix) # 6 THEN Raised
    ELSE IF Det(registration_matrix) = 0 THEN Raised
    ELSE Returned(AffineMul(original_transform, AffineInv(registration_matrix)))

\* lines 426-457 without the except branch of lines 459-461
update_transform_unprotected(original_transform, registration_matrix) ==
    IF original_transform = None \/ registration_matrix = None
    THEN Returned(original_transform)
    ELSE compose_try(original_transform, registration_matrix)

\* lines 426-461
update_transform_for_registration(original_transform, registration_matrix) ==
    IF original_transform = None \/ registration_matrix = None
    THEN Returned(original_transform)
    ELSE LET attempt == compose_try(original_transform, registration_matrix)
         IN  IF attempt.raised THEN Returned(original_transform)
             ELSE attempt

----------------------------------------------------------------------------
(* core/image_registration.py: the estimation strategies *)

\* what cv2.estimateAffinePartial2D did: raised, or returned (M, mask)
SolverOutcomes(n) ==
    [raises : {TRUE}, mask : {FALSE}, inliers : {0}, M : {None}]
    \cup [raises : {FALSE}, mask : {FALSE}, inliers : {0}, M : {<<0, 0 - 1, 3, 1, 0, 2>>}]
    \cup [raises : {FALSE}, mask : {TRUE},
          inliers : {k \in (MinInliers - 1)..(MinInliers + MaxOver) : k <= n},
          M : {<<0, 0 - 1, 3, 1, 0, 2>>}]

DescriptorCounts == {NoDescriptors} \cup (MinDescriptors - 1)..(MinDescriptors + MaxOver)

\* detect_and_match_features with no threshold on the number of matches
detect_and_match_features_AnyMatches(des1, des2, nmatches) ==
    IF des1 = NoDescriptors \/ des2 = NoDescriptors
          \/ des1 < MinDescriptors \/ des2 < MinDescriptors THEN 0
    ELSE nmatches

\* number of matched point pairs returned (0: the two empty arrays)
detect_and_match_features(des1, des2, nmatches) ==
    IF des1 = NoDescriptors \/ des2 = NoDescriptors
          \/ des1 < MinDescriptors \/ des2 < MinDescriptors THEN 0
    ELSE IF nmatches < MinMatches THEN 0
    ELSE nmatches

\* lines 222-239 returning M whenever the solver returned a mask
estimate_affine_transform_AnyMask(nref, ntarget, out) ==
    IF nref < MinPoints \/ ntarget < MinPoints THEN None
    ELSE IF out.raises THEN None
    ELSE IF out.mask THEN out.M
    ELSE None

estimate_affine_transform(nref, ntarget, out) ==
    IF nref < MinPoints \/ ntarget < MinPoints THEN None
    ELSE IF out.raises THEN None
    ELSE IF out.mask /\ out.inliers >= MinInliers THEN out.M
    ELSE None

register_slic_based(npairs, out) ==
    IF npairs < MinSlicPairs THEN None
    ELSE estimate_affine_transform(npairs, npairs, out)

Shifts == {<<s, 0 - s>> : s \in 0..MaxShift}

apply_transformation(image, transform_matrix) ==
    IF transform_matrix = None THEN image
    ELSE [kind |-> "warped", band |-> image.band, T |-> transform_matrix,
          shape |-> image.shape]

preprocess_image(image) == [image EXCEPT !.kind = "pre"]

match_histograms(image) == [image EXCEPT !.kind = "matched"]

----------------------------------------------------------------------------
(* core/image_registration.py: register_single_band, one step per if-block *)

\* np.float32([[1, 0, tx], [0, 1, ty]])
Translation(tx, ty) == <<1, 0, tx, 0, 1, ty>>

\* one entry of the record of strategies a call has run: which one, and what it
\* yielded (a matrix or None)
Attempt(s, m) == [strategy |-> s, yielded |-> m]

NoCall == [ref_img |-> Raw(0), target_img |-> Raw(0), original_target |-> Raw(0),
           transform_matrix |-> None, method_used |-> <<"none">>, tried |-> <<>>]

\* line 361
TriesFeatures(method) == method \in {"features", "hybrid"}

\* line 369 without its "transform_matrix is None" test
TriesSlic_Always(transform_matrix, method) == method \in {"slic", "hybrid"}

\* line 369
TriesSlic(transform_matrix, method) ==
    transform_matrix = None /\ method \in {"slic", "hybrid"}

\* line 375 with the method test of the dual variant's line 304
NeedsPhase_ByMethod(transform_matrix) ==
    transform_matrix = None /\ registration_method \in {"phase", "hybrid"}

\* line 375
NeedsPhase(transform_matrix) == transform_matrix = None

NoFile == [written |-> FALSE, writer |-> "none", transform |-> None,
           tags |-> {}, matrix_tags |-> <<>>,
           reference_band_tag |-> 0, reference_description |-> 0, profile_band |-> 0]

\* process_image_group's except branch (lines 515-517)
Fails ==
    /\ pc' = "returned"
    /\ result' = "False"

\* lines 361-367
RSB_Features ==
    /\ pc = "rsb_features"
    /\ IF TriesFeatures(registration_method)
       THEN \E des1 \in DescriptorCounts, des2 \in DescriptorCounts,
               nm \in (MinMatches - 1)..(MinMatches + MaxOver) :
            LET npts == detect_and_match_features(des1, des2, nm)
            IN  \E out \in SolverOutcomes(npts) :
                LET M == IF npts > 0 THEN estimate_affine_transform(npts, npts, out)
                         ELSE None
                IN  rsb' = [rsb EXCEPT !.tried = Append(@, Attempt("features", M)),
                                       !.transform_matrix = M,
                                       !.method_used = IF M # None THEN <<"features">>
                                                       ELSE @]
       ELSE rsb' = rsb
    /\ pc' = "rsb_slic"
    /\ UNCHANGED <<entry, logger, project, fnVars, dualVars, cliVars, cfgVars, loadVars, outVars, rsb_calls, result, output_file>>

\* lines 369-373
RSB_Slic ==
    /\ pc = "rsb_slic"
    /\ IF TriesSlic(rsb.transform_matrix, registration_method)
       THEN \E npairs \in (MinSlicPairs - 1)..(MinSlicPairs + MaxOver) :
            \E out \in SolverOutcomes(npairs) :
                LET M == register_slic_based(npairs, out)
                IN  rsb' = [rsb EXCEPT !.tried = Append(@, Attempt("slic", M)),
                                       !.transform_matrix = M,
                                       !.method_used = IF M # None THEN <<"slic">> ELSE @]
       ELSE rsb' = rsb
    /\ pc' = "rsb_phase"
    /\ UNCHANGED <<entry, logger, project, fnVars, dualVars, cliVars, cfgVars, loadVars, outVars, rsb_calls, result, output_file>>

\* estimate_phase_correlation_shift, lines 303-320: phase_cross_correlation and
\* the FFT product of the except branch both need grids of one shape
PhaseRaises(reference, target) == reference.shape # target.shape

\* lines 375-379; when estimate_phase_correlation_shift raises, the exception
\* leaves register_single_band and register_bands and is caught by
\* process_image_group (lines 515-517)
RSB_Phase ==
    /\ pc = "rsb_phase"
    /\ IF NeedsPhase(rsb.transform_matrix)
       THEN IF PhaseRaises(rsb.ref_img, rsb.target_img)
            THEN /\ rsb' = [rsb EXCEPT !.tried = Append(@, Attempt("phase", None))]
                 /\ Fails
            ELSE \E sh \in Shifts :
                 /\ rsb' = [rsb EXCEPT !.tried = Append(@, Attempt("phase",
                                                           Translation(sh[2], sh[1]))),
                                       !.transform_matrix = Translation(sh[2], sh[1]),
                                       !.method_used = <<"phase_shift", sh[1], sh[2]>>]
                 /\ pc' = "rsb_apply" /\ result' = result
       ELSE rsb' = rsb /\ pc' = "rsb_apply" /\ result' = result
    /\ UNCHANGED <<entry, logger, project, fnVars, dualVars, cliVars, cfgVars, loadVars, outVars, rsb_calls, output_file>>

\* what register_bands stores as the band's matrix (line 473)
StoredMatrix(transform_matrix) == None

\* lines 381-384, and the caller's lines 468-475
RSB_Apply ==
    /\ pc = "rsb_apply"
    /\ registered_bands' = Append(registered_bands,
                              apply_transformation(rsb.original_target, rsb.transform_matrix))
    /\ registration_matrices' = Append(registration_matrices,
                                       StoredMatrix(rsb.transform_matrix))
    /\ band_methods' = Append(band_methods, rsb.method_used)
    /\ rsb' = NoCall
    /\ pc' = "rb_loop"
    /\ UNCHANGED <<entry, logger, project, fnVars, dualVars, cliVars, cfgVars, loadVars, rsb_calls, result, output_file>>

----------------------------------------------------------------------------
(* core/image_registration.py: register_bands and process_image_group *)

\* register_bands, lines 396-397
RB_Validate ==
    /\ pc = "rb_validate"
    /\ IF ~validate_image_group(band_paths)
       THEN Fails
       ELSE pc' = "rb_load" /\ result' = result
    /\ UNCHANGED <<entry, logger, project, fnVars, dualVars, cliVars, cfgVars, loadVars, outVars, rsb, rsb_calls, output_file>>

\* what register_bands does with the validator's answer (lines 412-413): the
\* call is a statement, its value is dropped
AbortsOnInconsistency(valid) == FALSE

\* register_bands, lines 399-418; a reader may raise on a file that exists
RB_Load ==
    /\ pc = "rb_load"
    /\ \E readable \in BOOLEAN :
          IF ~readable
          THEN Fails /\ UNCHANGED <<bands, metadata_list, validation>>
          ELSE /\ bands' = [i \in 1..Len(band_paths) |->
                               [Raw(i) EXCEPT !.shape = GridShape(file_meta[i])]]
               /\ IF preserve_metadata
                  THEN /\ metadata_list' = file_meta
                       /\ validation' = IF validate_spatial_consistency(file_meta)
                                        THEN "pass" ELSE "fail"
                       /\ IF AbortsOnInconsistency(validate_spatial_consistency(file_meta))
                          THEN Fails
                          ELSE pc' = "rb_preprocess" /\ result' = result
                  ELSE /\ metadata_list' = [i \in 1..Len(band_paths) |-> EmptyMeta]
                       /\ validation' = validation
                       /\ pc' = "rb_preprocess" /\ result' = result
    /\ UNCHANGED <<entry, logger, project, fnVars, dualVars, cliVars, cfgVars, processed_bands, reference_pre, outVars, rsb,
                   rsb_calls, output_file>>

\* register_bands, lines 420-448; match_histograms either works for this
\* installation or raises for every band, and a raise keeps the unmatched grid.
\* preprocess_image calls clahe.apply outside any try (lines 98-102): when it
\* raises for a band the exception leaves register_bands
RB_Preprocess ==
    /\ pc = "rb_preprocess"
    /\ \E clahe_ok \in BOOLEAN, matching \in BOOLEAN :
          IF ~clahe_ok
          THEN Fails /\ UNCHANGED <<processed_bands, reference_pre>>
          ELSE /\ reference_pre' = preprocess_image(bands[reference_band + 1])
               /\ processed_bands' =
                     [i \in 1..Len(bands) |->
                         IF i - 1 = reference_band
                         THEN preprocess_image(bands[reference_band + 1])
                         ELSE IF matching THEN match_histograms(preprocess_image(bands[i]))
                         ELSE preprocess_image(bands[i])]
               /\ pc' = "rb_loop" /\ result' = result
    /\ UNCHANGED <<entry, logger, project, fnVars, dualVars, cliVars, cfgVars, bands, metadata_list, validation, outVars, rsb,
                   rsb_calls, output_file>>

\* the index i of the registration loop (line 457)
LoopIndex == Len(registered_bands)

\* line 458 against the 1-based band number
IsReference_OneBased(i, ref) == i = ref + 1

\* line 458
IsReference(i, ref) == i = ref

\* register_bands, lines 458-462
RB_ReferenceBand ==
    /\ pc = "rb_loop"
    /\ LoopIndex < Len(processed_bands)
    /\ IsReference(LoopIndex, reference_band)
    /\ registered_bands' = Append(registered_bands, bands[LoopIndex + 1])
    /\ registration_matrices' = Append(registration_matrices, None)
    /\ band_methods' = Append(band_methods, <<"reference">>)
    /\ UNCHANGED <<entry, logger, project, fnVars, dualVars, cliVars, cfgVars, loadVars, pc, rsb, rsb_calls, result, output_file>>

\* register_bands, lines 463-467: the call of register_single_band
RB_CallRegisterSingleBand ==
    /\ pc = "rb_loop"
    /\ LoopIndex < Len(processed_bands)
    /\ ~IsReference(LoopIndex, reference_band)
    /\ rsb' = [NoCall EXCEPT !.ref_img = reference_pre,
                             !.target_img = processed_bands[LoopIndex + 1],
                             !.original_target = bands[LoopIndex + 1]]
    /\ rsb_calls' = Append(rsb_calls, [ref_img |-> reference_pre,
                                       target_img |-> processed_bands[LoopIndex + 1],
                                       original_target |-> bands[LoopIndex + 1]])
    /\ pc' = "rsb_features"
    /\ UNCHANGED <<entry, logger, project, fnVars, dualVars, cliVars, cfgVars, loadVars, outVars, result, output_file>>

\* register_bands, line 477
RB_Return ==
    /\ pc = "rb_loop"
    /\ LoopIndex = Len(processed_bands)
    /\ pc' = "pig_save"
    /\ UNCHANGED <<entry, logger, project, fnVars, dualVars, cliVars, cfgVars, loadVars, outVars, rsb, rsb_calls, result, output_file>>

\* save_multiband_with_metadata, lines 546-551: the tag keys added to every output
\* (the source file's own tags and its GPS tags are left out)
ProcessingTags == {"PROCESSING", "SOFTWARE", "BANDS_COUNT", "REFERENCE_BAND"}

\* save_multiband_with_metadata, lines 514-568: the file rasterio writes; the keys
\* REGISTRATION_MATRIX_BAND_<i> are the domain of matrix_tags
GeoFile(reference_metadata, matrices) ==
    [written |-> TRUE, writer |-> "rasterio",
     transform |->
        IF Len(matrices) > 0 /\ reference_metadata.transform # None
              /\ matrices[1] # None
        THEN update_transform_for_registration(reference_metadata.transform,
                                               matrices[1]).value
        ELSE reference_metadata.transform,
     tags |-> ProcessingTags,
     matrix_tags |-> [i \in {j \in 1..Len(matrices) : matrices[j] # None} |-> matrices[i]],
     reference_band_tag |-> 1, reference_description |-> 0, profile_band |-> 0]

\* save_multiband_tiff, and save_multiband_with_metadata's except branch
PlainFile == [written |-> TRUE, writer |-> "tifffile", transform |-> None,
              tags |-> {}, matrix_tags |-> <<>>,
              reference_band_tag |-> 0, reference_description |-> 0, profile_band |-> 0]

\* save_multiband_with_metadata, lines 514-580: rasterio's file, or on any
\* exception tifffile's, whose own exception leaves the function
save_multiband_with_metadata(reference_metadata, matrices, geo_ok, plain_ok) ==
    IF geo_ok THEN Returned(GeoFile(reference_metadata, matrices))
    ELSE IF plain_ok THEN Returned(PlainFile)
    ELSE Raised

\* dst.write against the profile's size and np.stack need grids of one shape
Stackable(grids) == \A i \in 1..Len(grids) : grids[i].shape = grids[1].shape

\* create_output_profile and rasterio.open(output_path, 'w', **profile), lines
\* 476 and 529: the record of a failed extraction has no usable profile
Writable(reference_metadata) == reference_metadata # FallbackMeta

\* what is at output_path when the writer named last has raised as well
FailedWrite(last) == [NoFile EXCEPT !.writer = last]

\* process_image_group with a save_multiband_with_metadata that lets rasterio's
\* exception out instead of turning to tifffile
PIG_Save_NoFallback ==
    /\ pc = "pig_save"
    /\ \E geo_ok \in {b \in BOOLEAN : b => /\ Stackable(registered_bands)
                                           /\ Writable(metadata_list[reference_band + 1])},
          plain_ok \in {b \in BOOLEAN : b => Stackable(registered_bands)} :
          IF preserve_metadata /\ Len(metadata_list) > 0
          THEN IF geo_ok
               THEN /\ output_file' =
                          [GeoFile(metadata_list[reference_band + 1],
                                   registration_matrices)
                             EXCEPT !.reference_description = reference_band + 1,
                                    !.profile_band = reference_band + 1]
                    /\ result' = "True" /\ pc' = "returned"
               ELSE Fails /\ output_file' = FailedWrite("rasterio")
          ELSE IF plain_ok
               THEN output_file' = PlainFile /\ result' = "True" /\ pc' = "returned"
               ELSE Fails /\ output_file' = FailedWrite("tifffile")
    /\ UNCHANGED <<entry, logger, project, fnVars, dualVars, cliVars, cfgVars, loadVars, outVars, rsb, rsb_calls>>

\* process_image_group, lines 494-513; either writer may raise, and does when it
\* cannot write these grids. The description of the reference band's position
\* is the one marked "(riferimento)" (lines 496-499) and the profile comes from
\* metadata_list[self.reference_band] (line 503)
PIG_Save ==
    /\ pc = "pig_save"
    /\ \E geo_ok \in {b \in BOOLEAN : b => /\ Stackable(registered_bands)
                                           /\ Writable(metadata_list[reference_band + 1])},
          plain_ok \in {b \in BOOLEAN : b => Stackable(registered_bands)} :
          IF preserve_metadata /\ Len(metadata_list) > 0
          THEN IF geo_ok
               THEN /\ output_file' =
                          [GeoFile(metadata_list[reference_band + 1],
                                   registration_matrices)
                             EXCEPT !.reference_description = reference_band + 1,
                                    !.profile_band = reference_band + 1]
                    /\ result' = "True" /\ pc' = "returned"
               ELSE IF plain_ok
               THEN output_file' = PlainFile /\ result' = "True" /\ pc' = "returned"
               ELSE Fails /\ output_file' = FailedWrite("tifffile")
          ELSE IF plain_ok
               THEN output_file' = PlainFile /\ result' = "True" /\ pc' = "returned"
               ELSE Fails /\ output_file' = FailedWrite("tifffile")
    /\ UNCHANGED <<entry, logger, project, fnVars, dualVars, cliVars, cfgVars, loadVars, outVars, rsb, rsb_calls>>

----------------------------------------------------------------------------
(* core/dual_image_registration.py: DualImageRegistration.register_images, as  *)
(* run by MainWindow.process_dual_registration                                 *)

Min(a, b) == IF a < b THEN a ELSE b

Max(a, b) == IF a > b THEN a ELSE b

\* a Python slice bound on an axis of length n
PyIndex(i, n) == IF i < 0 THEN Max(i + n, 0) ELSE Min(i, n)

\* len(x[lo:hi]) on an axis of length n
SliceLen(lo, hi, n) == Max(0, PyIndex(hi, n) - PyIndex(lo, n))

ImageDims == MinDim..MaxDim

\* an image is known by its shape <<rows, columns>>
ImageShapes == ImageDims \X ImageDims

Area(shape) == shape[1] * shape[2]

\* scales are exact fractions <<numerator, denominator>>; int(n * scale)
ScaledInt(n, scale) == (n * scale[1]) \div scale[2]

\* estimate_scale_factor, lines 124-128
initial_scale(small, large) ==
    <<large[1] * small[2] + large[2] * small[1], 2 * small[1] * small[2]>>

\* np.linspace(initial * 0.7, initial * 1.3, 10)[k], k in 0..9
scale_candidate(initial, k) == <<initial[1] * (21 + 2 * k), initial[2] * 30>>

\* lines 140-160: the candidates whose correlation is computed at all
Scorable(small, large, scale) ==
    LET new_height == ScaledInt(small[1], scale)
        new_width == ScaledInt(small[2], scale)
        center_y == large[1] \div 2
        center_x == large[2] \div 2
        half_h == new_height \div 2
        half_w == new_width \div 2
        roi == <<SliceLen(center_y - half_h, center_y + half_h, large[1]),
                 SliceLen(center_x - half_w, center_x + half_w, large[2])>>
    IN  /\ ~(new_height > large[1] \/ new_width > large[2])
        /\ roi = <<new_height, new_width>>

\* estimate_scale_factor, lines 111-169: the scales it can return, the
\* correlation scores being the solver's
estimate_scale_factor(small, large, estimation) ==
    IF ~estimation THEN {initial_scale(small, large)}
    ELSE {initial_scale(small, large)} \cup
         {scale_candidate(initial_scale(small, large), k) : k \in
             {j \in 0..(NumCandidates - 1) :
                 Scorable(small, large, scale_candidate(initial_scale(small, large), j))}}

\* np.corrcoef(...)[0,1] of line 161, in hundredths, or nan
Correlation(v) == [nan |-> FALSE, value |-> v]

NaNCorrelation == [nan |-> TRUE, value |-> 0]

\* the loop of lines 138-166 from candidate k on, with the correlation each
\* scored candidate gets
RECURSIVE scan_candidates(_, _, _, _, _, _)
scan_candidates(small, large, scores, k, best_scale, best_score) ==
    IF k = NumCandidates THEN best_scale
    ELSE LET scale == scale_candidate(initial_scale(small, large), k)
         IN  IF /\ Scorable(small, large, scale)
                /\ ~scores[k].nan /\ scores[k].value > best_score
             THEN scan_candidates(small, large, scores, k + 1, scale, scores[k].value)
             ELSE scan_candidates(small, large, scores, k + 1, best_scale, best_score)

\* estimate_scale_factor, lines 111-169, for given correlations: best_score
\* starts at 0 (line 136)
best_scale_for(small, large, estimation, scores) ==
    IF ~estimation THEN initial_scale(small, large)
    ELSE scan_candidates(small, large, scores, 0, initial_scale(small, large), 0)

\* dual detect_and_match_features, lines 191-210: number of point pairs returned
dual_detect_and_match_features(des1, des2, nmatches) ==
    IF des1 = NoDescriptors \/ des2 = NoDescriptors
          \/ des1 < MinDescriptors \/ des2 < MinDescriptors THEN 0
    ELSE IF nmatches < MinMatches THEN 0
    ELSE Min(nmatches, MaxGoodMatches)

\* estimate_transform_robust, lines 224-249
estimate_transform_robust(nref, ntarget, out) ==
    IF nref < MinPoints \/ ntarget < MinPoints THEN None
    ELSE IF out.raises THEN None
    ELSE IF out.mask /\ out.inliers >= MinInliers THEN out.M
    ELSE None

\* line 296
DualTriesFeatures(method) == method \in {"features", "hybrid"}

\* line 304
DualTriesPhase(transform_matrix, method) ==
    transform_matrix = None /\ method \in {"phase", "hybrid"}

\* line 325
DualNeedsCenter(transform_matrix) == transform_matrix = None

NoShape == <<0, 0>>

DualIdle == [ref_image |-> NoShape, target_image |-> NoShape,
             reference_path |-> 0, target_path |-> 0,
             scale_factor |-> <<1, 1>>, target_resized |-> NoShape,
             transform_matrix |-> None, method_used |-> <<"none">>, tried |-> <<>>,
             registered_target |-> NoShape, mask |-> NoShape, contrast |-> "none"]

\* _enhance_contrast, lines 91-109: CLAHE, on any exception equalize_adapthist,
\* whose own exception leaves the function
enhance_contrast(clahe_ok, adapthist_ok) ==
    IF clahe_ok THEN "clahe"
    ELSE IF adapthist_ok THEN "adapthist"
    ELSE "raised"

\* process_dual_registration, lines 603-605 and 620-630
GD_Start ==
    /\ pc = "gd_start"
    /\ IF Len(selected_paths) # 2
       THEN pc' = "gd_returned" /\ UNCHANGED <<dual, dual_calls>>
       ELSE /\ pc' = "ri_load"
            /\ dual_calls' = dual_calls + 1
            /\ dual' = [DualIdle EXCEPT !.reference_path = 1, !.target_path = 2]
    /\ UNCHANGED <<entry, logger, project, fnVars, groupVars2, cliVars, selected_paths, dual_cfg>>

\* register_images, lines 264-274; a loader may raise, also from
\* _enhance_contrast (lines 81-88), and the exception leaves register_images
\* (line 370) and is caught by the caller (line 695)
RI_Load ==
    /\ pc = "ri_load"
    /\ \E readable \in BOOLEAN, clahe_ok \in BOOLEAN, adapthist_ok \in BOOLEAN :
          LET how == IF dual_cfg.enhance_contrast
                     THEN enhance_contrast(clahe_ok, adapthist_ok) ELSE "none"
          IN  IF ~readable
              THEN pc' = "gd_returned" /\ dual' = dual
              ELSE IF how = "raised"
              THEN pc' = "gd_returned" /\ dual' = [dual EXCEPT !.contrast = how]
              ELSE LET r == selected_paths[dual.reference_path]
                       t == selected_paths[dual.target_path]
                   IN  /\ pc' = "ri_scale"
                       /\ dual' = IF Area(r) < Area(t)
                                  THEN [dual EXCEPT !.ref_image = t, !.target_image = r,
                                                    !.reference_path = dual.target_path,
                                                    !.target_path = dual.reference_path,
                                                    !.contrast = how]
                                  ELSE [dual EXCEPT !.ref_image = r, !.target_image = t,
                                                    !.contrast = how]
    /\ UNCHANGED <<entry, logger, project, fnVars, groupVars2, cliVars, selected_paths, dual_cfg, dual_calls>>

\* lines 284-285 leaving the scaled size as it is
limit_to_reference_Unlimited(new_size, ref_size) == new_size

\* lines 284-285: min(new_height, ref_image.shape[0]), and the same for the width
limit_to_reference(new_size, ref_size) == Min(new_size, ref_size)

\* register_images, lines 276-290
RI_Scale ==
    /\ pc = "ri_scale"
    /\ \E scale \in estimate_scale_factor(dual.target_image, dual.ref_image,
                                          dual_cfg.scale_factor_estimation) :
          LET new_height == limit_to_reference(ScaledInt(dual.target_image[1], scale),
                                               dual.ref_image[1])
              new_width == limit_to_reference(ScaledInt(dual.target_image[2], scale),
                                              dual.ref_image[2])
          IN  dual' = [dual EXCEPT !.scale_factor = scale,
                                   !.target_resized = <<new_height, new_width>>]
    /\ pc' = "ri_features"
    /\ UNCHANGED <<entry, logger, project, fnVars, groupVars2, cliVars, selected_paths, dual_cfg, dual_calls>>

\* register_images, lines 296-302
RI_Features ==
    /\ pc = "ri_features"
    /\ IF DualTriesFeatures(dual_cfg.registration_method)
       THEN \E des1 \in DescriptorCounts, des2 \in DescriptorCounts,
               nm \in {MinMatches - 1, MinMatches, MaxGoodMatches + MaxOver} :
            LET npts == dual_detect_and_match_features(des1, des2, nm)
            IN  \E out \in SolverOutcomes(npts) :
                LET M == IF npts > 0 THEN estimate_transform_robust(npts, npts, out)
                         ELSE None
                IN  dual' = [dual EXCEPT !.tried = Append(@, Attempt("features", M)),
                                         !.transform_matrix = M,
                                         !.method_used = IF M # None THEN <<"features">>
                                                         ELSE @]
       ELSE dual' = dual
    /\ pc' = "ri_phase"
    /\ UNCHANGED <<entry, logger, project, fnVars, groupVars2, cliVars, selected_paths, dual_cfg, dual_calls>>

\* register_images, lines 304-323; phase_cross_correlation raises on an empty
\* region and may raise otherwise, and the except branch only logs
RI_Phase ==
    /\ pc = "ri_phase"
    /\ IF DualTriesPhase(dual.transform_matrix, dual_cfg.registration_method)
       THEN LET ref == dual.ref_image
                tr == dual.target_resized
                center_y == ref[1] \div 2
                center_x == ref[2] \div 2
                half_h == Min(tr[1] \div 2, ref[1] \div 4)
                half_w == Min(tr[2] \div 2, ref[2] \div 4)
                ref_roi == <<SliceLen(center_y - half_h, center_y + half_h, ref[1]),
                             SliceLen(center_x - half_w, center_x + half_w, ref[2])>>
                target_roi == <<SliceLen(0, 2 * half_h, tr[1]),
                                SliceLen(0, 2 * half_w, tr[2])>>
            IN  \E raises \in BOOLEAN, sh \in Shifts :
                   IF ref_roi = target_roi /\ ~raises /\ Area(ref_roi) > 0
                   THEN dual' = [dual EXCEPT
                           !.tried = Append(@, Attempt("phase", Translation(sh[2], sh[1]))),
                           !.transform_matrix = Translation(sh[2], sh[1]),
                           !.method_used = <<"phase_correlation", sh[1], sh[2]>>]
                   ELSE dual' = [dual EXCEPT !.tried = Append(@, Attempt("phase", None))]
       ELSE dual' = dual
    /\ pc' = "ri_center"
    /\ UNCHANGED <<entry, logger, project, fnVars, groupVars2, cliVars, selected_paths, dual_cfg, dual_calls>>

\* register_images, lines 325-331
RI_Center ==
    /\ pc = "ri_center"
    /\ IF DualNeedsCenter(dual.transform_matrix)
       THEN LET offset_y == (dual.ref_image[1] - dual.target_resized[1]) \div 2
                offset_x == (dual.ref_image[2] - dual.target_resized[2]) \div 2
            IN  dual' = [dual EXCEPT
                    !.tried = Append(@, Attempt("center", Translation(offset_x, offset_y))),
                    !.transform_matrix = Translation(offset_x, offset_y),
                    !.method_used = <<"center_placement">>]
       ELSE dual' = dual
    /\ pc' = "ri_warp"
    /\ UNCHANGED <<entry, logger, project, fnVars, groupVars2, cliVars, selected_paths, dual_cfg, dual_calls>>

\* register_images, lines 333-366: cv2.warpAffine to the reference's size
RI_Warp ==
    /\ pc = "ri_warp"
    /\ dual' = [dual EXCEPT !.registered_target = dual.ref_image,
                            !.mask = dual.ref_image]
    /\ pc' = "gd_returned"
    /\ UNCHANGED <<entry, logger, project, fnVars, groupVars2, cliVars, selected_paths, dual_cfg, dual_calls>>

NextDual ==
    \/ GD_Start
    \/ RI_Load
    \/ RI_Scale
    \/ RI_Features
    \/ RI_Phase
    \/ RI_Center
    \/ RI_Warp

----------------------------------------------------------------------------
(* main.py: the batch command line, one action per loop iteration *)

\* lines 490-513 without the except branch of lines 515-517
process_image_group_uncaught(paths, preserve, readable, geo_ok, plain_ok) ==
    IF ~validate_image_group(paths) THEN [result |-> "raised", wrote |-> FALSE]
    ELSE IF ~readable THEN [result |-> "raised", wrote |-> FALSE]
    ELSE IF preserve /\ geo_ok THEN [result |-> "True", wrote |-> TRUE]
    ELSE IF plain_ok THEN [result |-> "True", wrote |-> TRUE]
    ELSE [result |-> "raised", wrote |-> FALSE]

\* process_image_group as one call (lines 479-517): what it returns and whether
\* it wrote output_path, from the outcomes of the readers and the writers
process_image_group(paths, preserve, readable, geo_ok, plain_ok) ==
    IF ~validate_image_group(paths) THEN [result |-> "False", wrote |-> FALSE]
    ELSE IF ~readable THEN [result |-> "False", wrote |-> FALSE]
    ELSE IF preserve /\ geo_ok THEN [result |-> "True", wrote |-> TRUE]
    ELSE IF plain_ok THEN [result |-> "True", wrote |-> TRUE]
    ELSE [result |-> "False", wrote |-> FALSE]

\* a file name of the output directory: a base name followed by a suffix
FileName(b, sfx) == [base |-> b, suffix |-> sfx]

\* utils.create_output_filename (lines 218-230), the name inside output_dir
create_output_filename(base_name) == FileName(base_name, "_registered.tif")

\* utils.check_already_processed (lines 233-245): os.path.exists of that path
check_already_processed(base_name, listing) ==
    create_output_filename(base_name) \in listing

\* glob.glob(os.path.join(output_dir, "*_registered.tif")), lines 262-264: glob
\* reads output_dir as a pattern too, so a directory whose path holds [, ] , * or ?
\* is not listed itself; the directories its path matches as a pattern are
glob_registered(output_dir, listing, elsewhere) ==
    {n \in (IF output_dir.magic THEN elsewhere ELSE listing) :
        n.suffix = "_registered.tif"}

\* utils.find_processed_groups (lines 248-272) on an existing directory: group 1
\* of (.+)_registered\.tif$ for every globbed name
find_processed_groups(output_dir, listing, elsewhere) ==
    {n.base : n \in glob_registered(output_dir, listing, elsewhere)}

\* get_resume_info, lines 290-295: the groups whose base name has an output, and
\* the others, in iteration order
already_done(groups, outputs) == SelectSeq(groups, LAMBDA g : g.base \in outputs)

to_process(groups, outputs) == SelectSeq(groups, LAMBDA g : g.base \notin outputs)

\* utils.get_resume_info (lines 275-297)
get_resume_info(input_groups, output_dir, listing, elsewhere) ==
    LET processed_groups == find_processed_groups(output_dir, listing, elsewhere)
    IN  [to_process |-> to_process(input_groups, processed_groups),
         already_done |-> already_done(input_groups, processed_groups)]

\* line 151 testing only for too few bands
IsIncomplete_TooFew(band_list) == Len(band_list) < NumBands

\* line 151
IsIncomplete(band_list) == Len(band_list) # NumBands

CliIdle == [use_resume |-> TRUE, output |-> [magic |-> FALSE],
            all_image_groups |-> <<>>, image_groups |-> <<>>,
            already_processed |-> <<>>, idx |-> 1, successful |-> 0, failed |-> 0,
            exit_code |-> NoExit, called |-> <<>>, log |-> <<>>, prior |-> <<>>]

\* what the directories that args.output matches as a glob pattern hold, when
\* args.output has glob characters: nothing, or an output of the first group
ElsewhereListings == {{}, {create_output_filename(1)}}

\* main, lines 84-119
CLI_Start ==
    /\ pc = "cli_start"
    /\ IF Len(cli.all_image_groups) = 0
       THEN cli' = [cli EXCEPT !.exit_code = 1] /\ pc' = "cli_exited"
       ELSE IF cli.use_resume
       THEN \E elsewhere \in ElsewhereListings :
            LET info == get_resume_info(cli.all_image_groups, cli.output, out_dir,
                                        elsewhere)
                todo == info.to_process
                done == info.already_done
            IN  IF Len(todo) = 0
                THEN /\ cli' = [cli EXCEPT !.image_groups = todo,
                                           !.already_processed = done,
                                           !.exit_code = 0]
                     /\ pc' = "cli_exited"
                ELSE /\ cli' = [cli EXCEPT !.image_groups = todo,
                                           !.already_processed = done]
                     /\ pc' = "cli_loop"
       ELSE /\ cli' = [cli EXCEPT !.image_groups = cli.all_image_groups]
            /\ pc' = "cli_loop"
    /\ UNCHANGED <<entry, logger, project, fnVars, groupVars2, dualVars, out_dir>>

\* main, lines 150-154
CLI_SkipIncomplete ==
    /\ pc = "cli_loop"
    /\ cli.idx <= Len(cli.image_groups)
    /\ IsIncomplete(cli.image_groups[cli.idx].files)
    /\ cli' = [cli EXCEPT !.failed = @ + 1, !.idx = @ + 1,
                          !.log = Append(@, "incomplete")]
    /\ UNCHANGED <<entry, logger, project, fnVars, pc, groupVars2, dualVars, out_dir>>

\* main, lines 156-179
CLI_ProcessGroup ==
    /\ pc = "cli_loop"
    /\ cli.idx <= Len(cli.image_groups)
    /\ ~IsIncomplete(cli.image_groups[cli.idx].files)
    /\ \E readable \in BOOLEAN, geo_ok \in BOOLEAN, plain_ok \in BOOLEAN :
          LET g == cli.image_groups[cli.idx]
              r == process_image_group(g.files, preserve_metadata, readable,
                                       geo_ok, plain_ok)
          IN  /\ IF r.result = "raised"
                 THEN \* an exception leaving the call ends main with a traceback
                      /\ cli' = [cli EXCEPT !.called = Append(@, g.base),
                                            !.exit_code = 1]
                      /\ pc' = "cli_exited"
                 ELSE /\ cli' = [cli EXCEPT
                              !.called = Append(@, g.base),
                              !.successful = IF r.result = "True" THEN @ + 1 ELSE @,
                              !.failed = IF r.result = "True" THEN @ ELSE @ + 1,
                              !.log = Append(@, r.result),
                              !.idx = @ + 1]
                      /\ pc' = pc
              /\ out_dir' = IF r.wrote THEN out_dir \cup {create_output_filename(g.base)}
                            ELSE out_dir
    /\ UNCHANGED <<entry, logger, project, fnVars, groupVars2, dualVars>>

\* lines 197-198 never exiting with 1
exit_status_zero(failed) == 0

\* main, lines 197-198, and the status of a main that returns
exit_status(failed) == IF failed > 0 THEN 1 ELSE 0

\* main, lines 181-198
CLI_Exit ==
    /\ pc = "cli_loop"
    /\ cli.idx > Len(cli.image_groups)
    /\ cli' = [cli EXCEPT !.exit_code = exit_status(cli.failed)]
    /\ pc' = "cli_exited"
    /\ UNCHANGED <<entry, logger, project, fnVars, groupVars2, dualVars, out_dir>>

\* the same command line started a second time on the same input and output
\* directories once main has exited: find_image_groups finds the same groups
\* (lines 84-85), the locals start afresh; prior keeps what the first run left
\* behind
CLI_RunAgain ==
    /\ pc = "cli_exited"
    /\ cli.prior = <<>>
    /\ cli' = [CliIdle EXCEPT !.use_resume = cli.use_resume,
                              !.output = cli.output,
                              !.all_image_groups = cli.all_image_groups,
                              !.prior = Append(cli.prior,
                                               [listing |-> out_dir,
                                                failed |-> cli.failed,
                                                exit_code |-> cli.exit_code])]
    /\ pc' = "cli_start"
    /\ UNCHANGED <<entry, logger, project, fnVars, groupVars2, dualVars, out_dir>>

NextCli ==
    \/ CLI_Start
    \/ CLI_SkipIncomplete
    \/ CLI_ProcessGroup
    \/ CLI_Exit
    \/ CLI_RunAgain

----------------------------------------------------------------------------
(* The specification of one process_image_group call *)

\* ImageRegistration.__init__ (lines 65-70) with reference_band in 1..5
InitRegistrator ==
    /\ registration_method \in Methods
    /\ \E arg \in 1..NumBands : reference_band = arg - 1
    /\ preserve_metadata \in BOOLEAN

GroupIdle ==
    /\ bands = <<>> /\ metadata_list = <<>> /\ validation = "notrun"
    /\ processed_bands = <<>> /\ reference_pre = Raw(0)
    /\ registered_bands = <<>> /\ registration_matrices = <<>> /\ band_methods = <<>>
    /\ rsb = NoCall /\ rsb_calls = <<>>
    /\ result = "none"

CliUnused ==
    /\ cli = CliIdle
    /\ out_dir = {}

DualUnused ==
    /\ selected_paths = <<>>
    /\ dual_cfg = [registration_method |-> "hybrid", scale_factor_estimation |-> TRUE,
                   enhance_contrast |-> TRUE]
    /\ dual = DualIdle
    /\ dual_calls = 0

UtrIdle == [original_transform |-> None, registration_matrix |-> None,
            ret |-> Returned(None)]

VscIdle == [metadata_list |-> <<>>, reference_band |-> 0, ret |-> "none"]

CallIdle == [fn |-> "none", args |-> <<>>, ret |-> <<>>]

\* no ProjectLogger in use
LoggerIdle == [lock |-> 0, handlers |-> 0, log_file |-> "none", threads |-> <<>>]

\* a project folder that does not exist; of each subfolder it matters whether
\* it holds any entry
NoDir == [exists |-> FALSE, registered |-> FALSE, visualizations |-> FALSE,
          exports |-> FALSE]

\* ProjectManager.project_metadata = {}
NoMetadata == [present |-> FALSE, processed_files |-> 0, visualizations_saved |-> 0]

\* ProjectManager.__init__, lines 30-32, with no project folder on disk
ProjectIdle == [current_project |-> 0, project_metadata |-> NoMetadata,
                disk |-> [p \in 1..2 |-> NoDir],
                last |-> [op |-> "none", project |-> 0]]

\* MainWindow.__init__, line 52, with no worker thread and no stop request yet
GuiIdle == [processing_active |-> FALSE, image_groups |-> <<>>, i |-> 0,
            started |-> <<>>, recorded |-> <<>>, raised |-> FALSE,
            stop_requests |-> <<>>]

FnUnused ==
    /\ utr = UtrIdle
    /\ vsc = VscIdle
    /\ call = CallIdle
    /\ gui = GuiIdle

GroupUnused ==
    /\ registration_method = "hybrid" /\ reference_band = 0 /\ preserve_metadata = TRUE
    /\ band_paths = <<>> /\ file_meta = <<>>
    /\ GroupIdle
    /\ output_file = NoFile

InitGroup ==
    /\ entry = "group"
    /\ logger = LoggerIdle /\ project = ProjectIdle
    /\ InitRegistrator
    /\ band_paths \in BandGroups
    /\ file_meta \in IF preserve_metadata THEN GroupMetas(Len(band_paths))
                    ELSE {ml \in GroupMetas(Len(band_paths)) :
                             \A i \in 1..Len(ml) : ml[i].crs = BaseMeta.crs
                                                   /\ ml[i].transform = BaseMeta.transform}
    /\ pc = "rb_validate"
    /\ GroupIdle
    /\ output_file = NoFile
    /\ DualUnused
    /\ CliUnused
    /\ FnUnused

NextGroup ==
    \/ RB_Validate
    \/ RB_Load
    \/ RB_Preprocess
    \/ RB_ReferenceBand
    \/ RB_CallRegisterSingleBand
    \/ RSB_Features
    \/ RSB_Slic
    \/ RSB_Phase
    \/ RSB_Apply
    \/ RB_Return
    \/ PIG_Save

\* MainWindow.process_dual_registration with the selection and the controls'
\* values (lines 621-623)
InitDual ==
    /\ entry = "dual"
    /\ logger = LoggerIdle /\ project = ProjectIdle
    /\ \E n \in 1..(2 + MaxLenDelta) : selected_paths \in [1..n -> ImageShapes]
    /\ dual_cfg \in [registration_method : Methods, scale_factor_estimation : BOOLEAN,
                      enhance_contrast : BOOLEAN]
    /\ dual = DualIdle
    /\ dual_calls = 0
    /\ pc = "gd_start"
    /\ GroupUnused
    /\ CliUnused
    /\ FnUnused

\* the groups find_image_groups returns hold existing files named IMG_<d>_<n>.tif,
\* sorted
DiscoveredFiles ==
    {SortedGroup(n) : n \in (NumBands - 1)..(NumBands + 1)}
    \cup {[SortedGroup(NumBands) EXCEPT ![NumBands] = Path(NumBands + 1, TRUE)]}

\* the files an output directory may hold before the run: outputs of earlier
\* runs, and a file with another extension
OutputNames ==
    {create_output_filename(b) : b \in 1..MaxGroups}
    \cup {FileName(1, "_registered.tiff")}

\* the command line with the default method and reference band, with and
\* without --no-metadata and --no-resume, for an --output path with and without
\* glob characters
InitCli ==
    /\ entry = "cli"
    /\ logger = LoggerIdle /\ project = ProjectIdle
    /\ registration_method = "hybrid" /\ reference_band = 0
    /\ preserve_metadata \in BOOLEAN
    /\ band_paths = <<>> /\ file_meta = <<>>
    /\ GroupIdle
    /\ output_file = NoFile
    /\ DualUnused
    /\ \E n \in 0..MaxGroups : \E fs \in [1..n -> DiscoveredFiles] :
       \E resume \in BOOLEAN, magic \in BOOLEAN :
          cli = [CliIdle EXCEPT !.use_resume = resume,
                                !.output = [magic |-> magic],
                                !.all_image_groups = [i \in 1..n |->
                                                        [base |-> i, files |-> fs[i]]]]
    /\ out_dir \in SUBSET OutputNames
    /\ pc = "cli_start"
    /\ FnUnused

----------------------------------------------------------------------------
(* MetadataManager's two functions, each called on its own *)

\* world transforms: north-up rasters of pixel size 1 and 2, and a rotated one
WorldAffines ==
    {<<s, 0, x0, 0, 0 - s, y0>> : s \in 1..2, x0 \in {0, MaxT}, y0 \in {0, MaxT + 1}}
    \cup {<<0, 1, MaxT, 1, 0, 0>>}

\* 2x3 matrices with entries -1..1 and translations -MaxT..MaxT whose inverse is
\* exact (determinant 1 or -1) or does not exist (determinant 0)
PixelTransforms ==
    {t \in [1..6 -> (0 - MaxT)..MaxT] :
        /\ \A j \in {1, 2, 4, 5} : t[j] \in (0 - 1)..1
        /\ Det(t) \in (0 - 1)..1}

\* a 2x2 array where a 2x3 one is expected
Malformed == <<1, 0, 0, 1>>

InitCompose ==
    /\ entry = "compose"
    /\ logger = LoggerIdle /\ project = ProjectIdle
    /\ \E o \in WorldAffines \cup {None},
          m \in PixelTransforms \cup {None, Malformed} :
          utr = [UtrIdle EXCEPT !.original_transform = o, !.registration_matrix = m]
    /\ vsc = VscIdle
    /\ call = CallIdle
    /\ gui = GuiIdle
    /\ pc = "utr_call"
    /\ GroupUnused
    /\ DualUnused
    /\ CliUnused

UTR_Call ==
    /\ pc = "utr_call"
    /\ utr' = [utr EXCEPT !.ret = update_transform_for_registration(
                                      utr.original_transform, utr.registration_matrix)]
    /\ pc' = IF utr'.ret.raised THEN "utr_raised" ELSE "utr_returned"
    /\ UNCHANGED <<entry, logger, project, groupVars2, dualVars, cliVars, vsc, call, gui>>

NextCompose == UTR_Call

\* the metadata a band can carry: the group's transform with its third
\* coefficient moved by 0..MaxCoef units, another CRS, another width, another
\* height, or the record of a failed extraction
BandMetas ==
    {[BaseMeta EXCEPT !.transform = <<0, 0, k, 0, 0, 0>>] : k \in 0..MaxCoef}
    \cup {[BaseMeta EXCEPT !.crs = 2], [BaseMeta EXCEPT !.width = 5],
          [BaseMeta EXCEPT !.height = 4], FallbackMeta}

\* register_bands, lines 411-413, for a registrator configured with any
\* reference band
InitValidate ==
    /\ entry = "validate"
    /\ logger = LoggerIdle /\ project = ProjectIdle
    /\ \E ml \in {<<>>} \cup [1..NumBands -> BandMetas], arg \in 1..NumBands :
          vsc = [VscIdle EXCEPT !.metadata_list = ml, !.reference_band = arg - 1]
    /\ utr = UtrIdle
    /\ call = CallIdle
    /\ gui = GuiIdle
    /\ pc = "vsc_call"
    /\ GroupUnused
    /\ DualUnused
    /\ CliUnused

VSC_Call ==
    /\ pc = "vsc_call"
    /\ vsc' = [vsc EXCEPT !.ret = IF validate_spatial_consistency(vsc.metadata_list)
                                  THEN "True" ELSE "False"]
    /\ pc' = "vsc_returned"
    /\ UNCHANGED <<entry, logger, project, groupVars2, dualVars, cliVars, utr, call, gui>>

NextValidate == VSC_Call

----------------------------------------------------------------------------
(* utils.find_image_groups on a directory *)

\* a base name <prefix>_<id>, and whether <id> is made of digits only
BaseName(prefix, id, digits) == [prefix |-> prefix, id |-> id, digits |-> digits]

\* extract_base_name's None
NoBaseName == BaseName("", "", FALSE)

\* the input file <base>_<band><ext>
InputFile(b, n, ext) == [base |-> b, band |-> n, ext |-> ext]

\* glob.glob(os.path.join(input_path, "IMG_*_*.tif")), lines 56-57
glob_images(listing) == {f \in listing : f.base.prefix = "IMG" /\ f.ext = ".tif"}

\* extract_base_name, lines 80-94: re.match of (IMG_\d+)_\d+\.tif
extract_base_name(f) ==
    IF f.base.prefix = "IMG" /\ f.base.digits /\ f.ext \in {".tif", ".tiff"}
    THEN f.base
    ELSE NoBaseName

\* sorted() of the paths of one group (lines 69-70), whose band numbers are
\* single digits
SortedFiles(files) ==
    CHOOSE seq \in [1..Cardinality(files) -> files] :
        \A i, j \in 1..Cardinality(files) : i < j => seq[i].band < seq[j].band

\* find_image_groups, lines 54-73: the dictionary as a set of groups
find_image_groups(listing) ==
    LET all_files == glob_images(listing)
        keys == {extract_base_name(f) : f \in all_files} \ {NoBaseName}
    IN  {[base |-> b,
          files |-> SortedFiles({f \in all_files : extract_base_name(f) = b})] :
            b \in keys}

\* the base names of a directory: a numbered capture, the verification
\* script's IMG_TEST, and a file series of another camera
InputBases == {BaseName("IMG", "0001", TRUE), BaseName("IMG", "TEST", FALSE),
               BaseName("DSC", "0001", TRUE)}

\* a directory holding the first bands of each base name, as .tif files, and
\* possibly a .tiff copy of a band
InitDiscover ==
    /\ entry = "discover"
    /\ logger = LoggerIdle /\ project = ProjectIdle
    /\ \E count \in [InputBases -> 0..NumBands], stray \in BOOLEAN :
          call = [fn |-> "find_image_groups",
                  args |-> [listing |->
                     {f \in {InputFile(b, n, ".tif") :
                                b \in InputBases, n \in 1..NumBands} :
                         f.band <= count[f.base]}
                     \cup (IF stray
                           THEN {InputFile(BaseName("IMG", "0001", TRUE), 1, ".tiff")}
                           ELSE {})],
                  ret |-> <<>>]
    /\ utr = UtrIdle /\ vsc = VscIdle /\ gui = GuiIdle
    /\ pc = "fig_call"
    /\ GroupUnused
    /\ DualUnused
    /\ CliUnused

FIG_Call ==
    /\ pc = "fig_call"
    /\ call' = [call EXCEPT !.ret = find_image_groups(call.args.listing)]
    /\ pc' = "fig_returned"
    /\ UNCHANGED <<entry, logger, project, groupVars2, dualVars, cliVars, utr, vsc, gui>>

NextDiscover == FIG_Call

----------------------------------------------------------------------------
(* The two robust estimators, each called on its own *)

PointCounts == (MinPoints - 1 - MaxOver)..(MinPoints + MaxOver)

\* either estimator called with two point arrays of any lengths, the solver
\* marking at most as many inliers as there are pairs
InitEstimate ==
    /\ entry = "estimate"
    /\ logger = LoggerIdle /\ project = ProjectIdle
    /\ \E f \in {"estimate_affine_transform", "estimate_transform_robust"},
          nref \in PointCounts, ntarget \in PointCounts :
       \E out \in SolverOutcomes(Min(nref, ntarget)) :
          call = [fn |-> f,
                  args |-> [nref |-> nref, ntarget |-> ntarget, out |-> out],
                  ret |-> <<>>]
    /\ utr = UtrIdle /\ vsc = VscIdle /\ gui = GuiIdle
    /\ pc = "est_call"
    /\ GroupUnused
    /\ DualUnused
    /\ CliUnused

EST_Call ==
    /\ pc = "est_call"
    /\ call' = [call EXCEPT !.ret =
                   IF call.fn = "estimate_affine_transform"
                   THEN estimate_affine_transform(call.args.nref, call.args.ntarget,
                                                  call.args.out)
                   ELSE estimate_transform_robust(call.args.nref, call.args.ntarget,
                                                  call.args.out)]
    /\ pc' = "est_returned"
    /\ UNCHANGED <<entry, logger, project, groupVars2, dualVars, cliVars, utr, vsc, gui>>

NextEstimate == EST_Call

\* the candidates of a call whose correlation is computed
ScoredCandidates(small, large) ==
    {k \in 0..(NumCandidates - 1) :
        Scorable(small, large, scale_candidate(initial_scale(small, large), k))}

\* correlations: nan, a negative and a positive one
Correlations == {NaNCorrelation, Correlation(0 - 50), Correlation(50)}

\* estimate_scale_factor called on a small image of MinDim x MinDim and any
\* large image, each candidate that is scored getting any correlation
InitScale ==
    /\ entry = "scale"
    /\ logger = LoggerIdle /\ project = ProjectIdle
    /\ \E large \in ImageShapes, estimation \in BOOLEAN :
       \E f \in [IF estimation THEN ScoredCandidates(<<MinDim, MinDim>>, large)
                  ELSE {} -> Correlations] :
          call = [fn |-> "estimate_scale_factor",
                  args |-> [small |-> <<MinDim, MinDim>>, large |-> large,
                            estimation |-> estimation,
                            scores |-> [k \in 0..(NumCandidates - 1) |->
                                          IF k \in DOMAIN f THEN f[k]
                                          ELSE NaNCorrelation]],
                  ret |-> <<>>]
    /\ utr = UtrIdle /\ vsc = VscIdle /\ gui = GuiIdle
    /\ pc = "esf_call"
    /\ GroupUnused
    /\ DualUnused
    /\ CliUnused

ESF_Call ==
    /\ pc = "esf_call"
    /\ call' = [call EXCEPT !.ret = best_scale_for(call.args.small, call.args.large,
                                                   call.args.estimation,
                                                   call.args.scores)]
    /\ pc' = "esf_returned"
    /\ UNCHANGED <<entry, logger, project, groupVars2, dualVars, cliVars, utr, vsc, gui>>

NextScale == ESF_Call

----------------------------------------------------------------------------
(* gui/main_window.py: the batch worker thread and the Stop button *)

\* the window with a folder selected and a project open; the worker's position
\* is pc, which is "gui_ready" while no worker runs
InitGui ==
    /\ entry = "gui"
    /\ logger = LoggerIdle /\ project = ProjectIdle
    /\ \E n \in 1..MaxGroups : \E fs \in [1..n -> DiscoveredFiles] :
          gui = [GuiIdle EXCEPT !.image_groups = [k \in 1..n |->
                                                   [base |-> k, files |-> fs[k]]]]
    /\ pc = "gui_ready"
    /\ utr = UtrIdle /\ vsc = VscIdle /\ call = CallIdle
    /\ GroupUnused
    /\ DualUnused
    /\ CliUnused

\* start_processing, lines 491-508, and the worker up to its loop (511-543)
GUI_StartProcessing ==
    /\ pc = "gui_ready"
    /\ gui' = [gui EXCEPT !.processing_active = TRUE, !.i = 0]
    /\ pc' = "gui_poll"
    /\ UNCHANGED <<entry, logger, project, groupVars2, dualVars, cliVars, utr, vsc, call>>

\* line 546 never breaking
KeepsGoing_Always(processing_active) == TRUE

\* line 546: the loop goes on to this group
KeepsGoing(processing_active) == processing_active

\* the loop head of lines 545-547: the next group, if any, and the poll
W_Poll ==
    /\ pc = "gui_poll"
    /\ pc' = IF gui.i < Len(gui.image_groups) /\ KeepsGoing(gui.processing_active)
             THEN "gui_begin" ELSE "gui_finishing"
    /\ UNCHANGED <<entry, logger, project, groupVars2, dualVars, cliVars, fnVars>>

\* lines 549-559: the call of process_image_group starts
W_BeginGroup ==
    /\ pc = "gui_begin"
    /\ gui' = [gui EXCEPT !.started = Append(@, gui.image_groups[gui.i + 1].base)]
    /\ pc' = "gui_running"
    /\ UNCHANGED <<entry, logger, project, groupVars2, dualVars, cliVars, utr, vsc, call>>

\* lines 559-577: the call returns and its result is logged; an exception of
\* add_processed_file leaves the loop through lines 582-590
W_EndGroup ==
    /\ pc = "gui_running"
    /\ \E readable \in BOOLEAN, geo_ok \in BOOLEAN, plain_ok \in BOOLEAN,
          add_ok \in BOOLEAN :
          LET g == gui.image_groups[gui.i + 1]
              r == process_image_group(g.files, preserve_metadata, readable,
                                       geo_ok, plain_ok)
              success == r.result = "True"
              listing == IF r.wrote THEN out_dir \cup {create_output_filename(g.base)}
                         ELSE out_dir
              exists == create_output_filename(g.base) \in listing
              throws == success /\ exists /\ ~add_ok
          IN  /\ out_dir' = listing
              /\ gui' = [gui EXCEPT !.recorded = Append(@, [base |-> g.base,
                                                             success |-> success]),
                                    !.raised = throws,
                                    !.i = @ + 1]
              /\ pc' = IF throws THEN "gui_finishing" ELSE "gui_poll"
    /\ UNCHANGED <<entry, logger, project, groupVars2, dualVars, cli, utr, vsc, call>>

\* stop_processing, lines 595-598, on the main thread while the Stop button is
\* enabled; stop_requests keeps where the worker was at each request
GUI_StopProcessing ==
    /\ pc \in {"gui_poll", "gui_begin", "gui_running", "gui_finishing"}
    /\ Len(gui.stop_requests) <= MaxOver
    /\ gui' = [gui EXCEPT !.processing_active = FALSE,
                          !.stop_requests = Append(@, [pc |-> pc, i |-> gui.i])]
    /\ UNCHANGED <<entry, logger, project, pc, groupVars2, dualVars, cliVars, utr, vsc, call>>

\* processing_finished, lines 739-743, scheduled by the worker's finally
GUI_ProcessingFinished ==
    /\ pc = "gui_finishing"
    /\ gui' = [gui EXCEPT !.processing_active = FALSE]
    /\ pc' = "gui_finished"
    /\ UNCHANGED <<entry, logger, project, groupVars2, dualVars, cliVars, utr, vsc, call>>

NextGui ==
    \/ GUI_StartProcessing
    \/ W_Poll
    \/ W_BeginGroup
    \/ W_EndGroup
    \/ GUI_StopProcessing
    \/ GUI_ProcessingFinished

\* the registration_matrices argument: none, or one entry per band of which the
\* first is any matrix, a 2x2 array or None
MatrixLists ==
    {<<>>} \cup {[i \in 1..NumBands |-> IF i = 1 THEN m ELSE None] :
                    m \in PixelTransforms \cup {None, Malformed}}

\* save_multiband_with_metadata called on five grids of one shape, the
\* reference band having no transform or a north-up one with its origin at 0
InitSave ==
    /\ entry = "save"
    /\ logger = LoggerIdle /\ project = ProjectIdle
    /\ \E o \in {w \in WorldAffines : w[3] = 0 /\ w[6] = 0} \cup {None},
          ms \in MatrixLists :
          call = [fn |-> "save_multiband_with_metadata",
                  args |-> [reference_metadata |-> [BaseMeta EXCEPT !.transform = o],
                            registration_matrices |-> ms],
                  ret |-> <<>>]
    /\ utr = UtrIdle
    /\ vsc = VscIdle
    /\ gui = GuiIdle
    /\ pc = "smm_call"
    /\ GroupUnused
    /\ DualUnused
    /\ CliUnused

SMM_Call ==
    /\ pc = "smm_call"
    /\ \E geo_ok \in BOOLEAN, plain_ok \in BOOLEAN :
          call' = [call EXCEPT !.ret = save_multiband_with_metadata(
                                           call.args.reference_metadata,
                                           call.args.registration_matrices,
                                           geo_ok, plain_ok)]
    /\ pc' = IF call'.ret.raised THEN "smm_raised" ELSE "smm_returned"
    /\ UNCHANGED <<entry, logger, project, groupVars2, dualVars, cliVars, utr, vsc, gui>>

NextSave == SMM_Call

----------------------------------------------------------------------------
(* Properties *)

IsPrefix(s, t) == Len(s) <= Len(t) /\ \A i \in 1..Len(s) : s[i] = t[i]

Strategies(tried) == [i \in 1..Len(tried) |-> tried[i].strategy]

\* the first word of the method a strategy reports
MethodWord(strategy) ==
    CASE strategy = "features" -> "features"
      [] strategy = "slic" -> "slic"
      [] strategy = "phase" -> "phase_shift"
      [] OTHER -> "none"

InRegisterSingleBand == pc \in {"rsb_features", "rsb_slic", "rsb_phase", "rsb_apply"}

\* C1: in hybrid mode register_single_band runs its strategies in the order
\* features, slic, phase; a strategy runs only after every earlier one yielded
\* no transform; the transform and the method it returns with are those of the
\* first strategy that yielded one; and when features yielded nothing the
\* method is never "features" but "slic" if SLIC yielded a transform and
\* "phase_shift(...)" otherwise.
C1_HybridOrder ==
    (entry = "group" /\ registration_method = "hybrid" /\ InRegisterSingleBand) =>
        /\ IsPrefix(Strategies(rsb.tried), <<"features", "slic", "phase">>)
        /\ \A i \in 1..Len(rsb.tried) :
              rsb.tried[i].yielded # None => i = Len(rsb.tried)
        /\ pc = "rsb_apply" =>
              /\ Len(rsb.tried) > 0
              /\ LET last == rsb.tried[Len(rsb.tried)]
                 IN  /\ last.yielded # None
                     /\ rsb.transform_matrix = last.yielded
                     /\ rsb.method_used[1] = MethodWord(last.strategy)
              /\ rsb.tried[1].yielded = None =>
                    /\ rsb.method_used # <<"features">>
                    /\ Len(rsb.tried) >= 2
                    /\ IF rsb.tried[2].yielded # None
                       THEN rsb.method_used = <<"slic">>
                       ELSE /\ Len(rsb.tried) = 3
                            /\ rsb.method_used[1] = "phase_shift"

\* C1 witness: a hybrid call about to return with SLIC's transform after the
\* feature-based strategy yielded none
C1_Witness ==
    /\ entry = "group" /\ registration_method = "hybrid" /\ pc = "rsb_apply"
    /\ Len(rsb.tried) = 2
    /\ rsb.tried[1] = Attempt("features", None)
    /\ rsb.tried[2].strategy = "slic" /\ rsb.tried[2].yielded # None
    /\ rsb.method_used = <<"slic">>

\* C2: with preserve_metadata, a group whose metadata the validator finds
\* inconsistent is a hard failure: no band is estimated, no output file is
\* written and process_image_group does not return True.
C2_InconsistencyIsFatal ==
    (entry = "group" /\ preserve_metadata /\ validation = "fail") =>
        /\ rsb_calls = <<>>
        /\ ~output_file.written
        /\ result # "True"

SamplePoints == {<<0, 0>>, <<1, 0>>, <<0, 1>>, <<2, 3>>}

\* C3: for a world transform A and an invertible pixel transform T the function
\* returns W = A o T^-1: W maps T(p) to A(p) for the sample points p (three of
\* which fix an affine map), W o T = A, and W^-1 o A gives back T.
C3_ComposeInverse ==
    (/\ entry = "compose" /\ pc # "utr_call"
     /\ utr.original_transform # None /\ utr.registration_matrix # None
     /\ Len(utr.registration_matrix) = 6 /\ Det(utr.registration_matrix) # 0) =>
        LET A == utr.original_transform
            T == utr.registration_matrix
            W == utr.ret.value
        IN  /\ ~utr.ret.raised
            /\ W # None
            /\ \A p \in SamplePoints :
                  AffineApply(W, AffineApply(T, p)) = AffineApply(A, p)
            /\ AffineMul(W, T) = A
            /\ Det(A) \in {1, 0 - 1} => AffineMul(AffineInv(W), A) = T

\* C3 witness: a returned composition with a rotation-and-translation T, where
\* the order of the factors matters
C3_Witness ==
    /\ entry = "compose" /\ pc = "utr_returned"
    /\ utr.original_transform = <<1, 0, MaxT, 0, 0 - 1, MaxT + 1>>
    /\ utr.registration_matrix = <<0, 0 - 1, 1, 1, 0, 0 - 1>>
    /\ utr.ret.value # utr.original_transform

\* C4: when register_bands returns, registration_matrices holds for every
\* non-reference band the transform that was applied to it, and no transform
\* for the reference band only.
C4_MatricesAreApplied ==
    (entry = "group" /\ pc = "pig_save") =>
        \A i \in 1..Len(registered_bands) :
            IF i - 1 = reference_band
            THEN registration_matrices[i] = None
            ELSE /\ registration_matrices[i] # None
                 /\ registration_matrices[i] = registered_bands[i].T

\* C10: update_transform_for_registration never raises, and with either
\* argument None, a matrix of another shape or a degenerate matrix it returns
\* the original transform.
C10_NeverRaises ==
    entry = "compose" =>
        /\ pc # "utr_raised"
        /\ (/\ pc = "utr_returned"
            /\ \/ utr.original_transform = None
               \/ utr.registration_matrix = None
               \/ Len(utr.registration_matrix) # 6
               \/ Det(utr.registration_matrix) = 0) =>
              utr.ret = Returned(utr.original_transform)

\* C10 witness: a call with a world transform and the zero-scale matrix returned
\* the world transform
C10_Witness ==
    /\ entry = "compose" /\ pc = "utr_returned"
    /\ utr.original_transform \in WorldAffines
    /\ utr.registration_matrix = <<0, 0, 1, 0, 0, 1>>
    /\ utr.ret = Returned(utr.original_transform)

\* C5: in a single-strategy mode only that strategy runs and, when it yields no
\* transform, phase correlation runs next; in the dual variant with method
\* "features" a failed feature-based estimation is followed by a phase
\* correlation attempt, and center placement comes only after that attempt
\* produced no transform.
C5_SingleStrategyThenPhase ==
    /\ (/\ entry = "group" /\ pc = "rsb_apply"
        /\ registration_method \in {"features", "slic", "phase"}) =>
          LET own == IF registration_method = "phase" THEN <<>>
                     ELSE <<registration_method>>
          IN  /\ Strategies(rsb.tried) \in {own, own \o <<"phase">>}
              /\ (own # <<>> /\ rsb.tried[1].yielded = None) =>
                    Strategies(rsb.tried) = own \o <<"phase">>
    /\ (/\ entry = "dual" /\ pc = "ri_warp"
        /\ dual_cfg.registration_method = "features"
        /\ dual.tried[1].yielded = None) =>
          /\ Len(dual.tried) >= 2
          /\ dual.tried[2].strategy = "phase"
          /\ dual.method_used = <<"center_placement">> =>
                (Len(dual.tried) = 3 /\ dual.tried[2].yielded = None)

\* the bands registered so far, but for the reference band
Estimated == {i \in 1..Len(registered_bands) : band_methods[i] # <<"reference">>}

\* C6: register_single_band returns, for every method and every outcome of the
\* feature-based and SLIC strategies, with a transform and a method other than
\* "none", and that transform is the one applied to the band; a call on grids
\* of one shape always returns; register_images reaches the warp with a
\* transform and with method "features", "phase_correlation(...)" or
\* "center_placement", whatever phase correlation did.
C6_NoBandWithoutTransform ==
    /\ (entry = "group" /\ pc = "rsb_apply") =>
          /\ rsb.transform_matrix # None
          /\ rsb.method_used # <<"none">>
    /\ entry = "group" =>
          \A i \in Estimated :
             /\ registered_bands[i].kind = "warped"
             /\ registered_bands[i].T # None
             /\ band_methods[i][1] \in {"features", "slic", "phase_shift"}
    /\ (entry = "group" /\ pc = "returned" /\ rsb # NoCall) =>
          rsb.ref_img.shape # rsb.target_img.shape
    /\ (entry = "dual" /\ pc = "ri_warp") =>
          /\ dual.transform_matrix # None
          /\ dual.method_used[1] \in {"features", "phase_correlation", "center_placement"}
    /\ (entry = "dual" /\ pc = "gd_returned" /\ dual.registered_target # NoShape) =>
          dual.transform_matrix # None

\* C6 witness: a call in "features" mode whose feature-based strategy yielded
\* nothing is about to return with the phase correlation's transform
C6_Witness ==
    /\ entry = "group" /\ pc = "rsb_apply" /\ registration_method = "features"
    /\ Strategies(rsb.tried) = <<"features", "phase">>
    /\ rsb.tried[1].yielded = None
    /\ rsb.transform_matrix # None

\* C7: the band at the reference index is never handed to register_single_band
\* and comes back as the loaded grid with no transform; every other band is
\* handed to it exactly once, in band order, with the preprocessed reference
\* band as the reference.
C7_ReferenceNeverEstimated ==
    entry = "group" =>
        /\ \A k \in 1..Len(rsb_calls) :
              /\ rsb_calls[k].original_target.band # reference_band + 1
              /\ rsb_calls[k].ref_img = preprocess_image(bands[reference_band + 1])
              /\ rsb_calls[k].original_target = bands[rsb_calls[k].original_target.band]
              /\ \A l \in 1..Len(rsb_calls) :
                    rsb_calls[l].original_target.band = rsb_calls[k].original_target.band
                       => l = k
        /\ Len(registered_bands) > reference_band =>
              /\ registered_bands[reference_band + 1] = bands[reference_band + 1]
              /\ registration_matrices[reference_band + 1] = None
              /\ band_methods[reference_band + 1] = <<"reference">>
        /\ pc = "pig_save" =>
              /\ Len(registered_bands) = NumBands
              /\ {rsb_calls[k].original_target.band : k \in 1..Len(rsb_calls)}
                    = (1..NumBands) \ {reference_band + 1}

\* C7 witness: register_bands returned for a group whose reference band is the
\* third
C7_Witness ==
    /\ entry = "group" /\ pc = "pig_save" /\ reference_band = 2
    /\ Len(rsb_calls) = NumBands - 1
    /\ registered_bands[3] = bands[3]

\* a band list that is not the five existing files numbered 1..5
BadGroup(paths) ==
    \/ Len(paths) # 5
    \/ \E i \in 1..Len(paths) : ~paths[i].exists
    \/ {paths[i].num : i \in 1..Len(paths)} # 1..5

\* the groups main() has gone through
Visited == {cli.image_groups[i] : i \in 1..(cli.idx - 1)}

\* C8: process_image_group on a band list that is not five existing files
\* numbered 1..5 returns False having loaded, preprocessed and estimated
\* nothing and written no file; the command line never calls
\* process_image_group on a group of another size than 5 and counts each such
\* group as failed; the GUI's dual registration on a selection of another
\* size than 2 registers nothing.
C8_WrongSizeRejected ==
    /\ (entry = "group" /\ BadGroup(band_paths)) =>
          /\ pc \in {"rb_validate", "returned"}
          /\ pc = "returned" => result = "False"
          /\ bands = <<>> /\ metadata_list = <<>> /\ processed_bands = <<>>
          /\ rsb_calls = <<>> /\ registered_bands = <<>>
          /\ ~output_file.written
    /\ entry = "cli" =>
          /\ \A g \in Visited :
                Len(g.files) # 5 =>
                   \A k \in 1..Len(cli.called) : cli.called[k] # g.base
          /\ cli.failed >= Cardinality({g \in Visited : Len(g.files) # 5})
          /\ cli.successful + cli.failed = cli.idx - 1
    /\ (entry = "dual" /\ Len(selected_paths) # 2) =>
          /\ dual_calls = 0
          /\ dual = DualIdle
          /\ pc \in {"gd_start", "gd_returned"}

\* C8 witness: the command line has gone through a 4-band and a 6-band group
\* without a call, and counted both as failed
C8_Witness ==
    /\ entry = "cli" /\ pc = "cli_exited"
    /\ cli.idx = 3
    /\ Len(cli.image_groups[1].files) = 4 /\ Len(cli.image_groups[2].files) = 6
    /\ cli.called = <<>> /\ cli.failed = 2 /\ cli.exit_code = 1

\* is the band with metadata m consistent with the band with metadata r: same
\* CRS, same size, every transform coefficient within the tolerance
ConsistentWith(m, r) ==
    /\ m.crs = r.crs
    /\ m.width = r.width /\ m.height = r.height
    /\ (m.transform # None /\ r.transform # None) =>
          \A j \in 1..6 : Abs(m.transform[j] - r.transform[j]) <= TransformTol

\* C9: validate_spatial_consistency returns True only when every band is
\* consistent with the band configured as reference_band: it returns False
\* whenever some band's CRS, size or transform (beyond the tolerance) differs
\* from that band's.
C9_AgainstConfiguredReference ==
    (/\ entry = "validate" /\ pc = "vsc_returned"
     /\ Len(vsc.metadata_list) > 0 /\ vsc.ret = "True") =>
        \A i \in 1..Len(vsc.metadata_list) :
            ConsistentWith(vsc.metadata_list[i],
                           vsc.metadata_list[vsc.reference_band + 1])

\* the composition of lines 519-526 was attempted and fell back to the original
\* transform
CompositionFailed(reference_metadata, matrices) ==
    /\ Len(matrices) > 0
    /\ reference_metadata.transform # None
    /\ matrices[1] # None
    /\ compose_try(reference_metadata.transform, matrices[1]).raised

\* C11: when composing the geotransform fails and the original transform is
\* written instead, the output carries a tag that an output with a composed
\* transform does not carry (a key beyond those written on every output).
C11_FallbackIsFlagged ==
    (/\ entry = "save" /\ pc = "smm_returned"
     /\ call.ret.value.writer = "rasterio"
     /\ CompositionFailed(call.args.reference_metadata,
                          call.args.registration_matrices))
    => call.ret.value.tags # ProcessingTags

\* main has just run get_resume_info (lines 97-115) and nothing since
JustResumed ==
    /\ entry = "cli" /\ cli.use_resume /\ Len(cli.all_image_groups) > 0
    /\ pc \in {"cli_loop", "cli_exited"}
    /\ cli.idx = 1 /\ cli.successful = 0 /\ cli.failed = 0

Members(seq) == {seq[i] : i \in 1..Len(seq)}

\* C12: get_resume_info partitions the input groups: the two maps are disjoint,
\* their union is the input with every file list unchanged, and a base name is
\* in the already-done map exactly when <base>_registered.tif exists in the
\* output directory at call time, which is what check_already_processed answers.
C12_ResumePartition ==
    JustResumed =>
        /\ Members(cli.image_groups) \cap Members(cli.already_processed) = {}
        /\ Members(cli.image_groups) \cup Members(cli.already_processed)
              = Members(cli.all_image_groups)
        /\ \A g \in Members(cli.all_image_groups) :
              g \in Members(cli.already_processed)
                 <=> check_already_processed(g.base, out_dir)

\* C13: run twice with resume on the same directories, the second run calls
\* process_image_group for no group, writes no file, and reports as many
\* already-processed groups as the first run discovered.
C13_SecondRunIdle ==
    (entry = "cli" /\ cli.use_resume /\ Len(cli.prior) = 1) =>
        /\ cli.called = <<>>
        /\ out_dir = cli.prior[1].listing
        /\ pc # "cli_start" =>
              Len(cli.already_processed) = Len(cli.all_image_groups)

\* the groups of the loop that were skipped as incomplete or whose
\* process_image_group call returned False
FailedGroups == {i \in 1..Len(cli.log) : cli.log[i] \in {"incomplete", "False"}}

\* C14: with at least one discovered group, main exits with 1 exactly when some
\* scheduled group had a band count other than 5 or process_image_group
\* returned False for it, with 0 when every scheduled group succeeded, and with
\* 0 when resume finds every discovered group already processed.
C14_ExitStatus ==
    (entry = "cli" /\ pc = "cli_exited" /\ Len(cli.all_image_groups) > 0) =>
        /\ cli.exit_code \in {0, 1}
        /\ Len(cli.log) = Len(cli.image_groups)
        /\ \A i \in 1..Len(cli.log) :
              cli.log[i] = "incomplete" <=> Len(cli.image_groups[i].files) # NumBands
        /\ cli.exit_code = 1 <=> FailedGroups # {}
        /\ (\A i \in 1..Len(cli.log) : cli.log[i] = "True") => cli.exit_code = 0
        /\ (cli.use_resume /\ Len(cli.already_processed) = Len(cli.all_image_groups))
              => cli.exit_code = 0 /\ cli.called = <<>>

\* a run of two groups exits with 1 after the first group succeeded and the
\* second returned False
C14_Witness ==
    /\ entry = "cli" /\ pc = "cli_exited"
    /\ cli.log = <<"True", "False">>
    /\ cli.exit_code = 1

\* the complete groups among the scheduled ones, in iteration order
CompleteBases ==
    LET complete == SelectSeq(cli.image_groups,
                              LAMBDA g : Len(g.files) = NumBands)
    IN  [i \in 1..Len(complete) |-> complete[i].base]

\* C15: a failure inside a group never aborts the batch: process_image_group
\* turns every exception into a False result, every scheduled group is
\* attempted once in iteration order whatever happened before it, and at the
\* end of the loop successful + failed is the number of scheduled groups (with
\* resume, already-processed + successful + failed is the number discovered).
C15_FailureNeverAborts ==
    (entry = "cli" /\ Len(cli.all_image_groups) > 0) =>
        /\ IsPrefix(cli.called, CompleteBases)
        /\ \A i \in 1..Len(cli.log) : cli.log[i] \in {"True", "False", "incomplete"}
        /\ pc = "cli_loop" =>
              /\ Len(cli.log) = cli.idx - 1
              /\ cli.successful + cli.failed = cli.idx - 1
        /\ (pc = "cli_exited" /\ Len(cli.image_groups) > 0) =>
              /\ cli.called = CompleteBases
              /\ cli.successful + cli.failed = Len(cli.image_groups)
        /\ (pc = "cli_exited" /\ cli.use_resume) =>
              Len(cli.already_processed) + cli.successful + cli.failed
                 = Len(cli.all_image_groups)

\* the first of two groups returned False and the second was still processed
C15_Witness ==
    /\ entry = "cli" /\ pc = "cli_exited"
    /\ cli.log = <<"False", "True">>
    /\ Len(cli.called) = 2
    /\ cli.successful = 1 /\ cli.failed = 1

\* the groups whose iteration had passed the poll of line 546 when Stop was
\* first pressed: the group in flight and those before it
InFlightAtStop ==
    LET first == gui.stop_requests[1]
    IN  IF first.pc \in {"gui_begin", "gui_running"} THEN first.i + 1 ELSE first.i

WorkerDone == pc \in {"gui_finishing", "gui_finished"}

\* C16: the worker polls processing_active only between groups: once
\* stop_processing has set it to False no group beyond the one in flight has
\* its process_image_group call started, and the group in flight at the
\* request runs to completion and has its result recorded.
C16_StopBetweenGroups ==
    entry = "gui" =>
        /\ \A k \in 1..Len(gui.started) : gui.started[k] = gui.image_groups[k].base
        /\ \A k \in 1..Len(gui.recorded) : gui.recorded[k].base = gui.started[k]
        /\ Len(gui.recorded) = IF pc = "gui_running" THEN Len(gui.started) - 1
                               ELSE Len(gui.started)
        /\ Len(gui.stop_requests) > 0 => Len(gui.started) <= InFlightAtStop
        /\ (WorkerDone /\ Len(gui.stop_requests) > 0 /\ ~gui.raised
               /\ gui.stop_requests[1].pc # "gui_finishing")
              => Len(gui.recorded) = InFlightAtStop
        /\ (WorkerDone /\ Len(gui.stop_requests) = 0 /\ ~gui.raised)
              => Len(gui.recorded) = Len(gui.image_groups)

\* Stop was pressed while the first of two groups was running: that group was
\* recorded and the second was never started
C16_Witness ==
    /\ entry = "gui" /\ pc = "gui_finished"
    /\ Len(gui.image_groups) = 2
    /\ Len(gui.stop_requests) > 0
    /\ gui.stop_requests[1] = [pc |-> "gui_running", i |-> 0]
    /\ Len(gui.recorded) = 1 /\ Len(gui.started) = 1

\* C17: both robust estimators return a transform only if both point sets
\* have at least 6 points and the solver marks at least 6 inliers; with fewer
\* inliers, with no mask and with a solver that raises they return None.
C17_SixInliersOrNone ==
    (entry = "estimate" /\ pc = "est_returned") =>
        LET a == call.args
            accepted == /\ a.nref >= 6 /\ a.ntarget >= 6
                        /\ ~a.out.raises /\ a.out.mask /\ a.out.inliers >= 6
        IN  /\ call.ret # None => accepted
            /\ ~accepted => call.ret = None
            /\ accepted => call.ret = a.out.M

\* the solver returned a matrix with a mask of 5 inliers for 7 and 6 points and
\* the multiband estimator returned None
C17_Witness ==
    /\ entry = "estimate" /\ pc = "est_returned"
    /\ call.fn = "estimate_affine_transform"
    /\ call.args.nref = 7 /\ call.args.ntarget = 6
    /\ call.args.out.mask /\ call.args.out.inliers = 5
    /\ call.args.out.M # None
    /\ call.ret = None

\* the scored candidates of the call whose correlation is finite
FiniteCandidates ==
    {k \in ScoredCandidates(call.args.small, call.args.large) :
        ~call.args.scores[k].nan}

\* C18: with estimation enabled estimate_scale_factor returns the candidate
\* with the highest finite correlation among the scored candidates, whatever
\* the sign of that correlation, and the initial ratio s0 only if no candidate
\* has a finite correlation; with estimation disabled it returns s0.
C18_HighestFiniteScore ==
    (entry = "scale" /\ pc = "esf_returned") =>
        LET a == call.args
            s0 == initial_scale(a.small, a.large)
        IN  IF ~a.estimation \/ FiniteCandidates = {} THEN call.ret = s0
            ELSE \E k \in FiniteCandidates :
                    /\ call.ret = scale_candidate(s0, k)
                    /\ \A j \in FiniteCandidates :
                          a.scores[j].value <= a.scores[k].value

\* C19: contrast enhancement is best-effort: when the adaptive histogram
\* equalization fails the preprocessor hands back the normalized grid instead
\* of raising, so no group whose bands were loaded fails before a band was
\* preprocessed, and no dual registration ends in _enhance_contrast.
C19_EnhancementBestEffort ==
    /\ ~(/\ entry = "group" /\ pc = "returned" /\ result = "False"
         /\ Len(bands) > 0 /\ processed_bands = <<>>)
    /\ entry = "dual" => dual.contrast # "raised"

\* the files B_<n>.tif of the directory for a base name B
BandFilesOf(b, listing) == {f \in listing : f.base = b /\ f.ext = ".tif"}

\* C20: find_image_groups on a directory returns one group per base name B of
\* the form IMG_<anything> that has files B_<n>.tif, keyed by B and holding
\* exactly those files in sorted order, also for a base such as IMG_TEST.
C20_GroupsByBaseName ==
    (entry = "discover" /\ pc = "fig_returned") =>
        LET listing == call.args.listing
            expected == {b \in InputBases :
                            b.prefix = "IMG" /\ BandFilesOf(b, listing) # {}}
        IN  /\ {g.base : g \in call.ret} = expected
            /\ \A g \in call.ret :
                  /\ {g.files[i] : i \in 1..Len(g.files)} = BandFilesOf(g.base, listing)
                  /\ Len(g.files) = Cardinality(BandFilesOf(g.base, listing))
                  /\ \A i \in 1..(Len(g.files) - 1) :
                        g.files[i].band < g.files[i + 1].band

\* C21 as stated: a valid group whose files load always ends in True with a
\* file at output_path, and True is never returned without a written file
C21_ValidGroupIsSaved ==
    entry = "group" /\ pc = "returned" =>
        /\ (validate_image_group(band_paths) /\ Len(bands) = NumBands
               => result = "True" /\ output_file.written)
        /\ (result = "True" => output_file.written)

\* C21: process_image_group returns True exactly when this call wrote a file at
\* output_path, with or without preserve_metadata; a call that fails at saving
\* has tried the metadata-free writer last, so a failure of the geospatial
\* writer alone never fails the call
C21_TrueIffWritten ==
    entry = "group" /\ pc = "returned" =>
        /\ result = "True" <=> output_file.written
        /\ output_file.written =>
              /\ validate_image_group(band_paths) /\ Len(bands) = NumBands
              /\ output_file.writer = "rasterio" => preserve_metadata
        /\ ~output_file.written /\ output_file.writer # "none"
              => output_file.writer = "tifffile"

\* metadata-preserving mode, the geospatial writer failed, the file is tifffile's
C21_Witness ==
    /\ entry = "group" /\ pc = "returned" /\ result = "True"
    /\ preserve_metadata /\ Len(metadata_list) > 0
    /\ output_file.written /\ output_file.writer = "tifffile"

----------------------------------------------------------------------------
(* gui/main_window.py: the Tk main thread, its buttons and after-queue, and   *)
(* the worker threads start_processing creates. Here gui is                   *)
(* [processing_active, process_button, stop_button, ref_band_var, method_var, *)
(*  n, workers, after, files, viewer], reference_band and registration_method *)
(* are the fields of the one shared ImageRegistration object.                 *)

\* IntVar(value=3) of the reference band spin box
RefBandDefault == 3

\* a worker thread's locals: where it is, the loop's i and output_file (the
\* base name of the group, 0 while unbound), and the configuration
\* process_image_group found on the shared object when its call began
NewWorker == [pc |-> "configure", i |-> 0, output_file |-> 0, cfg |-> <<>>]

\* root.after(0, lambda: self.load_processed_result(output_file)) of worker w:
\* the lambda holds the worker's variable, not its value
LoadCallback(w) == [fn |-> "load_processed_result", worker |-> w]

\* root.after(0, self.processing_finished)
FinishCallback == [fn |-> "processing_finished", worker |-> 0]

TkIdle == [processing_active |-> FALSE, process_button |-> "normal",
           stop_button |-> "disabled", ref_band_var |-> RefBandDefault,
           method_var |-> "hybrid", n |-> 0, workers |-> <<>>, after |-> <<>>,
           files |-> {}, viewer |-> 0]

\* MainWindow.__init__, a new project and a selection of n groups
InitTk ==
    /\ entry = "tk"
    /\ logger = LoggerIdle /\ project = ProjectIdle
    /\ \E n \in 1..MaxGroups : gui = [TkIdle EXCEPT !.n = n]
    /\ pc = "tk_mainloop"
    /\ utr = UtrIdle /\ vsc = VscIdle /\ call = CallIdle
    /\ GroupUnused
    /\ DualUnused
    /\ CliUnused

\* a button whose command runs whatever its state
Clickable_Always(state) == TRUE

\* a ttk.Button runs its command only while its state is not "disabled"
Clickable(state) == state = "normal"

\* the frame of the steps that leave the shared ImageRegistration object alone
TkFrame ==
    UNCHANGED <<entry, logger, project, pc, groupVars2, dualVars, cliVars, utr, vsc, call>>

\* start_processing, lines 491-508, from the process button (line 184); two
\* threads are enough to show an overlap
TK_StartProcessing ==
    /\ entry = "tk"
    /\ Clickable(gui.process_button)
    /\ Len(gui.workers) < 2
    /\ gui' = [gui EXCEPT !.processing_active = TRUE,
                          !.process_button = "disabled",
                          !.stop_button = "normal",
                          !.workers = Append(@, NewWorker)]
    /\ TkFrame

\* the user turns the reference band spin box or the method box (lines 136-146)
TK_ChangeControls ==
    /\ entry = "tk"
    /\ \E b \in {1, RefBandDefault}, m \in {"hybrid", "features"} :
          /\ <<b, m>> # <<gui.ref_band_var, gui.method_var>>
          /\ gui' = [gui EXCEPT !.ref_band_var = b, !.method_var = m]
    /\ TkFrame

\* stop_processing, lines 595-598, from the Stop button (line 188)
TK_StopProcessing ==
    /\ entry = "tk"
    /\ Clickable(gui.stop_button)
    /\ gui.processing_active
    /\ gui' = [gui EXCEPT !.processing_active = FALSE]
    /\ TkFrame

\* the main loop runs the oldest after-callback: processing_finished (lines
\* 739-743) or load_processed_result (745-755) on the value the worker's
\* output_file has now
TK_RunCallback ==
    /\ entry = "tk"
    /\ gui.after # <<>>
    /\ LET cb == Head(gui.after)
           output_file_now == gui.workers[cb.worker].output_file
       IN  IF cb.fn = "processing_finished"
           THEN gui' = [gui EXCEPT !.after = Tail(@),
                                   !.processing_active = FALSE,
                                   !.process_button = "normal",
                                   !.stop_button = "disabled"]
           ELSE gui' = [gui EXCEPT !.after = Tail(@),
                                   !.viewer = IF output_file_now \in gui.files
                                              THEN output_file_now ELSE @]
    /\ TkFrame

\* process_images_thread, lines 537-538: the worker writes the controls' values
\* into the shared object
TW_Configure(w) ==
    /\ gui.workers[w].pc = "configure"
    /\ reference_band' = gui.ref_band_var - 1
    /\ registration_method' = gui.method_var
    /\ gui' = [gui EXCEPT !.workers[w].pc = "poll"]
    /\ UNCHANGED <<entry, logger, project, pc, preserve_metadata, band_paths, file_meta, loadVars,
                   outVars, rsb, rsb_calls, result, output_file, dualVars, cliVars,
                   utr, vsc, call>>

\* lines 545-559: the next group if there is one and processing_active holds;
\* output_file is rebound and process_image_group is entered
TW_Poll(w) ==
    /\ gui.workers[w].pc = "poll"
    /\ LET me == gui.workers[w]
       IN  IF me.i < gui.n /\ KeepsGoing(gui.processing_active)
           THEN gui' = [gui EXCEPT !.workers[w] =
                           [me EXCEPT !.pc = "call", !.output_file = me.i + 1,
                                      !.cfg = <<reference_band, registration_method>>]]
           ELSE gui' = [gui EXCEPT !.workers[w].pc = "finally"]
    /\ TkFrame

\* lines 559-579: process_image_group returns; the file is there if it wrote
\* one; the first group's success schedules load_processed_result
TW_EndGroup(w) ==
    /\ gui.workers[w].pc = "call"
    /\ \E success \in BOOLEAN :
          LET me == gui.workers[w]
          IN  gui' = [gui EXCEPT
                        !.workers[w] = [me EXCEPT !.pc = "poll", !.i = @ + 1,
                                                  !.cfg = <<>>],
                        !.files = IF success THEN @ \cup {me.output_file} ELSE @,
                        !.after = IF success /\ me.i = 0
                                  THEN Append(@, LoadCallback(w)) ELSE @]
    /\ TkFrame

\* lines 591-593: the finally clause schedules processing_finished and the
\* thread ends
TW_Finally(w) ==
    /\ gui.workers[w].pc = "finally"
    /\ gui' = [gui EXCEPT !.workers[w].pc = "done",
                          !.after = Append(@, FinishCallback)]
    /\ TkFrame

TW_Step ==
    /\ entry = "tk"
    /\ \E w \in 1..Len(gui.workers) :
          TW_Configure(w) \/ TW_Poll(w) \/ TW_EndGroup(w) \/ TW_Finally(w)

NextTk ==
    \/ TK_StartProcessing
    \/ TK_ChangeControls
    \/ TK_StopProcessing
    \/ TK_RunCallback
    \/ TW_Step

\* the worker threads that have not ended
LiveWorkers == {w \in 1..Len(gui.workers) : gui.workers[w].pc # "done"}

\* the workers inside process_image_group
CallingWorkers == {w \in 1..Len(gui.workers) : gui.workers[w].pc = "call"}

\* C22: at most one worker thread is alive, so at most one is inside
\* process_image_group, and while one is the shared object's reference_band
\* and registration_method are those the call began with; the process button
\* is disabled whenever a worker is alive, also after Stop was pressed.
C22_SingleWorker ==
    entry = "tk" =>
        /\ Cardinality(LiveWorkers) <= 1
        /\ Cardinality(CallingWorkers) <= 1
        /\ \A w \in CallingWorkers :
              gui.workers[w].cfg = <<reference_band, registration_method>>
        /\ LiveWorkers # {} => gui.process_button = "disabled"

\* a second batch was started after the first one ended, its worker is inside
\* process_image_group after Stop was pressed, and the controls no longer show
\* what the shared object holds
C22_Witness ==
    /\ entry = "tk"
    /\ Len(gui.workers) = 2
    /\ gui.workers[1].pc = "done" /\ gui.workers[2].pc = "call"
    /\ ~gui.processing_active
    /\ gui.ref_band_var - 1 # reference_band

\* C23 as stated: no band is handed to register_single_band before the
\* reference band's own entry (identity, no matrix) has been produced
C23_ReferenceFirst ==
    entry = "group" /\ rsb_calls # <<>> =>
        \E k \in 1..Len(band_methods) : band_methods[k] = <<"reference">>

\* the band the j-th register_single_band call of a group is about
CallBand(j) == IF j <= reference_band THEN j ELSE j + 1

\* C23: register_bands fixes the reference image before any estimation and
\* then goes through the bands in index order: the entry of position k is
\* band k, the reference band is passed through unchanged (no estimation) at
\* its own position, and the other bands are registered in ascending order,
\* each against the preprocessed reference band; the bands below the
\* reference band are registered before its entry is produced.
C23_IndexOrder ==
    entry = "group" =>
        /\ \A k \in 1..Len(registered_bands) :
              /\ registered_bands[k].band = k
              /\ band_methods[k] = <<"reference">> <=> k = reference_band + 1
              /\ k = reference_band + 1 => /\ registered_bands[k] = bands[k]
                                           /\ registration_matrices[k] = None
        /\ \A j \in 1..Len(rsb_calls) :
              /\ rsb_calls[j].original_target = bands[CallBand(j)]
              /\ rsb_calls[j].ref_img = preprocess_image(bands[reference_band + 1])
        /\ LET done == Cardinality({k \in 1..Len(registered_bands) :
                                        k # reference_band + 1})
           IN  /\ Len(rsb_calls) \in {done, done + 1}
               /\ InRegisterSingleBand => Len(rsb_calls) = done + 1
               /\ pc \in {"rb_loop", "pig_save"} => Len(rsb_calls) = done

\* reference band 3: bands 1 and 2 were registered before the reference band
\* was passed through
C23_Witness ==
    /\ entry = "group" /\ reference_band = 2
    /\ Len(rsb_calls) = 2 /\ Len(registered_bands) = 3
    /\ band_methods[3] = <<"reference">>

----------------------------------------------------------------------------
(* The feature-based state of both orchestrators, run on its own *)

\* dual lines 203-204: matches sorted by distance are known by their rank, and
\* matches[:min(len(matches), 100)] keeps these ranks
good_matches(nmatches) == {r \in 1..nmatches : r <= Min(nmatches, MaxGoodMatches)}

\* image_registration.py lines 361-367 and dual_image_registration.py lines
\* 296-302: the matcher's points, whether the estimator was called on them, and
\* the matrix the state ends with
features_state(variant, des1, des2, nmatches, out) ==
    LET npts == IF variant = "dual"
                THEN dual_detect_and_match_features(des1, des2, nmatches)
                ELSE detect_and_match_features(des1, des2, nmatches)
    IN  [points |-> npts,
         kept |-> IF npts = 0 THEN {}
                  ELSE IF variant = "dual" THEN good_matches(nmatches)
                  ELSE 1..nmatches,
         estimator_called |-> npts > 0,
         transform_matrix |->
            IF npts > 0
            THEN IF variant = "dual" THEN estimate_transform_robust(npts, npts, out)
                 ELSE estimate_affine_transform(npts, npts, out)
            ELSE None]

\* descriptor counts around the threshold and above the dual variant's cap
MatchDescriptorCounts == DescriptorCounts \cup {MaxGoodMatches + MaxOver}

\* the state entered with any descriptor counts; the cross-checking matcher
\* returns at most one match per descriptor of either image
InitMatch ==
    /\ entry = "match"
    /\ logger = LoggerIdle /\ project = ProjectIdle
    /\ \E variant \in {"bands", "dual"},
          des1 \in MatchDescriptorCounts, des2 \in MatchDescriptorCounts,
          nm \in {MinMatches - 1, MinMatches, MaxGoodMatches, MaxGoodMatches + MaxOver} :
       \E out \in SolverOutcomes(nm) :
          /\ nm <= Max(0, Min(des1, des2))
          /\ call = [fn |-> "features_state",
                     args |-> [variant |-> variant, des1 |-> des1, des2 |-> des2,
                               nmatches |-> nm, out |-> out],
                     ret |-> <<>>]
    /\ utr = UtrIdle /\ vsc = VscIdle /\ gui = GuiIdle
    /\ pc = "match_call"
    /\ GroupUnused
    /\ DualUnused
    /\ CliUnused

MATCH_Call ==
    /\ pc = "match_call"
    /\ call' = [call EXCEPT !.ret = features_state(call.args.variant, call.args.des1,
                                                   call.args.des2, call.args.nmatches,
                                                   call.args.out)]
    /\ pc' = "match_returned"
    /\ UNCHANGED <<entry, logger, project, groupVars2, dualVars, cliVars, utr, vsc, gui>>

NextMatch == MATCH_Call

\* C24: in the feature-based state the robust estimator is called exactly when
\* both images gave at least 10 descriptors and the matcher at least 10
\* matches; otherwise the point sets are empty, the estimator is not called and
\* the state ends without a matrix, so the orchestrator goes on. The dual
\* variant passes on at most 100 matches, those of smallest distance.
C24_EstimatorNeedsTenAndTen ==
    entry = "match" /\ pc = "match_returned" =>
        LET a == call.args
            r == call.ret
            enough == /\ a.des1 # NoDescriptors /\ a.des2 # NoDescriptors
                      /\ a.des1 >= MinDescriptors /\ a.des2 >= MinDescriptors
                      /\ a.nmatches >= MinMatches
        IN  /\ r.estimator_called <=> enough
            /\ ~enough => r.points = 0 /\ r.kept = {} /\ r.transform_matrix = None
            /\ enough => r.points = Cardinality(r.kept)
            /\ a.variant = "dual" =>
                  /\ r.points <= MaxGoodMatches
                  /\ \A k \in r.kept : \A d \in (1..a.nmatches) \ r.kept : k < d
            /\ (a.variant = "bands" /\ enough) => r.kept = 1..a.nmatches

\* the dual variant got more than 100 matches and passed 100 of them on
C24_Witness ==
    /\ entry = "match" /\ pc = "match_returned"
    /\ call.args.variant = "dual" /\ call.args.nmatches > MaxGoodMatches
    /\ call.ret.estimator_called /\ call.ret.points = MaxGoodMatches

----------------------------------------------------------------------------
(* core/image_registration.py: register_slic_based on given segment features. *)
(* Intensities and scores are in hundredths; a segment is known by its        *)
(* position in the features dictionary.                                       *)

\* the similarity threshold 0.3 of line 275
SimilarityThreshold == 30

\* float('inf') of line 266: above every score
InfScore == 1000

SegmentFeature(mean_intensity, area) == [mean_intensity |-> mean_intensity, area |-> area]

\* lines 270-273; the areas used divide each other's hundredfold exactly
slic_score(ref_feat, target_feat) ==
    Abs(ref_feat.mean_intensity - target_feat.mean_intensity)
    + (100 - (Min(ref_feat.area, target_feat.area) * 100)
                 \div Max(ref_feat.area, target_feat.area))

\* line 275 without the threshold
Improves_NoThreshold(score, best_score) == score < best_score

\* line 275
Improves(score, best_score) == score < best_score /\ score < SimilarityThreshold

\* the inner loop of lines 268-277 from target k on; best_match 0 is None
RECURSIVE scan_targets(_, _, _, _, _)
scan_targets(ref_feat, target_features, k, best_match, best_score) ==
    IF k > Len(target_features) THEN best_match
    ELSE LET score == slic_score(ref_feat, target_features[k])
         IN  IF Improves(score, best_score)
             THEN scan_targets(ref_feat, target_features, k + 1, k, score)
             ELSE scan_targets(ref_feat, target_features, k + 1, best_match, best_score)

\* lines 263-280: the list matches, as pairs of segment positions
slic_matches(ref_features, target_features) ==
    LET best == [r \in 1..Len(ref_features) |->
                    scan_targets(ref_features[r], target_features, 1, 0, InfScore)]
        paired == SelectSeq([r \in 1..Len(ref_features) |-> r], LAMBDA r : best[r] # 0)
    IN  [m \in 1..Len(paired) |-> [ref |-> paired[m], target |-> best[paired[m]]]]

\* lines 263-290 on the two feature dictionaries
register_slic_features(ref_features, target_features, out) ==
    LET matches == slic_matches(ref_features, target_features)
    IN  [matches |-> matches,
         estimator_called |-> Len(matches) >= MinSlicPairs,
         value |-> register_slic_based(Len(matches), out)]

\* reference segments: dark or bright, of area 2
RefSegments == {SegmentFeature(0, 2), SegmentFeature(30, 2)}

\* target segments: scores 0, 29, 30 and 50 against a dark reference segment
TargetSegments == {SegmentFeature(0, 2), SegmentFeature(29, 2), SegmentFeature(30, 2),
                   SegmentFeature(0, 4)}

\* 5 to 7 reference segments, the third and later ones alike, against up to
\* two target segments
InitSlic ==
    /\ entry = "slic"
    /\ logger = LoggerIdle /\ project = ProjectIdle
    /\ \E n \in (MinSlicPairs - 1)..(MinSlicPairs + MaxOver),
          r1 \in RefSegments, r2 \in RefSegments, r3 \in RefSegments,
          nt \in 0..2 :
       \E tf \in [1..nt -> TargetSegments] :
       \E out \in SolverOutcomes(n) :
          call = [fn |-> "register_slic_based",
                  args |-> [ref_features |-> [k \in 1..n |-> IF k = 1 THEN r1
                                                             ELSE IF k = 2 THEN r2
                                                             ELSE r3],
                            target_features |-> tf,
                            out |-> out],
                  ret |-> <<>>]
    /\ utr = UtrIdle /\ vsc = VscIdle /\ gui = GuiIdle
    /\ pc = "slic_call"
    /\ GroupUnused
    /\ DualUnused
    /\ CliUnused

SLIC_Call ==
    /\ pc = "slic_call"
    /\ call' = [call EXCEPT !.ret = register_slic_features(call.args.ref_features,
                                                           call.args.target_features,
                                                           call.args.out)]
    /\ pc' = "slic_returned"
    /\ UNCHANGED <<entry, logger, project, groupVars2, dualVars, cliVars, utr, vsc, gui>>

NextSlic == SLIC_Call

\* C25: every pairing of register_slic_based joins a reference segment with
\* the first target segment of minimum score, that score being strictly below
\* 0.3; a reference segment is paired at most once; the estimator is called
\* only with at least 6 pairings, and with fewer the function returns None.
C25_SlicPairing ==
    entry = "slic" /\ pc = "slic_returned" =>
        LET rf == call.args.ref_features
            tf == call.args.target_features
            ms == call.ret.matches
        IN  /\ \A m \in 1..Len(ms) :
                  LET sc == slic_score(rf[ms[m].ref], tf[ms[m].target])
                  IN  /\ sc < SimilarityThreshold
                      /\ \A t \in 1..Len(tf) : sc <= slic_score(rf[ms[m].ref], tf[t])
                      /\ \A t \in 1..(ms[m].target - 1) :
                            sc < slic_score(rf[ms[m].ref], tf[t])
            /\ \A m, q \in 1..Len(ms) : m # q => ms[m].ref # ms[q].ref
            /\ call.ret.estimator_called => Len(ms) >= MinSlicPairs
            /\ Len(ms) < MinSlicPairs => call.ret.value = None

\* six pairings, one of them with the first of two equally good target
\* segments, and the estimator returned a matrix
C25_Witness ==
    /\ entry = "slic" /\ pc = "slic_returned"
    /\ Len(call.ret.matches) = MinSlicPairs
    /\ call.ret.estimator_called /\ call.ret.value # None
    /\ Len(call.args.target_features) = 2
    /\ call.args.target_features[1] = call.args.target_features[2]
    /\ call.ret.matches[1].target = 1

\* C26: whatever load_processed_result has put in the viewer is the output
\* file of the first group of the batch
C26_ViewerShowsFirstGroup ==
    entry = "tk" => gui.viewer \in {0, 1}

----------------------------------------------------------------------------
(* utils/project_logger.py: one ProjectLogger used by several threads. Thread *)
(* 1 closes it, by close() or by leaving a with block; the other threads log  *)
(* with info(). lock is the thread holding self.lock, 0 when it is free: a    *)
(* threading.Lock is not reentrant and anyone's release frees it.             *)

LoggerThread(at, left) == [pc |-> at, left |-> left]

\* the ways thread 1 comes to close the logger: close(), __exit__ without and
\* with an exception
ClosingEntries == {"close_acquire", "exit", "exit_exc"}

\* a logger with or without a log file (lines 47-48, 65-72), a closing thread
\* and two threads with up to 1 + MaxOver messages each still to log
InitLogger ==
    /\ entry = "logger"
    /\ project = ProjectIdle
    /\ \E file \in BOOLEAN, how \in ClosingEntries,
          left \in [2..3 -> 0..(1 + MaxOver)] :
          logger = [lock |-> 0,
                    handlers |-> IF file THEN 1 ELSE 0,
                    log_file |-> IF file THEN "open" ELSE "none",
                    threads |-> [t \in 1..3 |->
                                    IF t = 1 THEN LoggerThread(how, 0)
                                    ELSE LoggerThread("idle", left[t])]]
    /\ pc = "logger_threads"
    /\ utr = UtrIdle /\ vsc = VscIdle /\ call = CallIdle /\ gui = GuiIdle
    /\ GroupUnused
    /\ DualUnused
    /\ CliUnused

\* `with self.lock:` entered by thread t, going on at pc next: it waits while
\* the lock is held, by whomever
Acquire(t, next) ==
    /\ logger.lock = 0
    /\ logger' = [logger EXCEPT !.lock = t, !.threads[t].pc = next]

\* the end of a `with self.lock:` block
Release(t, next) ==
    logger' = [logger EXCEPT !.lock = 0, !.threads[t].pc = next]

Goto(t, next) == logger' = [logger EXCEPT !.threads[t].pc = next]

\* the next step of thread t: info (lines 139-142), exception (159-164),
\* __exit__ (209-213) and close (186-203)
LG_Step(t) ==
    /\ entry = "logger"
    /\ LET me == logger.threads[t]
       IN  IF me.pc = "idle"
           THEN me.left > 0 /\ Goto(t, "info_acquire")
           ELSE IF me.pc = "info_acquire"
           THEN Acquire(t, "info_log")
           ELSE IF me.pc = "info_log"
           THEN logger' = [logger EXCEPT !.lock = 0,
                                         !.threads[t] = LoggerThread("idle", me.left - 1)]
           ELSE IF me.pc = "exit_exc"
           THEN Goto(t, "exception_acquire")
           ELSE IF me.pc = "exception_acquire"
           THEN Acquire(t, "exception_log")
           ELSE IF me.pc = "exception_log"
           THEN Release(t, "close_acquire")
           ELSE IF me.pc = "exit"
           THEN Goto(t, "close_acquire")
           ELSE IF me.pc = "close_acquire"
           THEN Acquire(t, "close_info1_acquire")
           ELSE IF me.pc = "close_info1_acquire"
           THEN Acquire(t, "close_info1_log")
           ELSE IF me.pc = "close_info1_log"
           THEN Release(t, "close_info2_acquire")
           ELSE IF me.pc = "close_info2_acquire"
           THEN Acquire(t, "close_info2_log")
           ELSE IF me.pc = "close_info2_log"
           THEN Release(t, "close_handlers")
           ELSE IF me.pc = "close_handlers"
           THEN logger' = [logger EXCEPT !.handlers = 0,
                                         !.log_file = IF @ = "open" THEN "closed" ELSE @,
                                         !.threads[t].pc = "close_release"]
           ELSE IF me.pc = "close_release"
           THEN IF logger.lock = 0
                THEN Goto(t, "close_raised")
                ELSE Release(t, "close_returned")
           ELSE FALSE
    /\ UNCHANGED <<entry, project, pc, groupVars2, dualVars, cliVars, fnVars>>

NextLogger == \E t \in 1..3 : LG_Step(t)

\* C27: the closing thread always gets out of close(), and then no handler is
\* left, the log file is closed and the lock is free
C27_CloseTerminates ==
    entry = "logger" =>
        <>(/\ logger.threads[1].pc = "close_returned"
           /\ logger.handlers = 0 /\ logger.log_file # "open" /\ logger.lock = 0)

\* C28: in a file written with metadata the REFERENCE_BAND tag is the
\* configured reference band (1-based), which is also the band described as
\* "(riferimento)" and the band whose metadata gave the profile
C28_ReferenceBandTag ==
    (entry = "group" /\ output_file.written /\ output_file.writer = "rasterio") =>
        /\ output_file.reference_band_tag = reference_band + 1
        /\ output_file.reference_band_tag = output_file.reference_description
        /\ output_file.reference_band_tag = output_file.profile_band

\* register_images is past its loading and swap step
DualLoaded == dual.ref_image # NoShape

\* register_images is past its resize step
DualResized == dual.target_resized # NoShape

\* C29: in register_images, once the images are loaded the reference has at
\* least the target's area and reference_path and target_path name the files
\* the two images came from; the resized target is no higher and no wider than
\* the reference; the offsets of the center placement are non-negative and
\* offset + target size stays within the reference on both axes; and
\* registered_target and mask have the reference's shape.
C29_TargetFitsReference ==
    (entry = "dual" /\ DualLoaded) =>
        /\ Area(dual.ref_image) >= Area(dual.target_image)
        /\ dual.ref_image = selected_paths[dual.reference_path]
        /\ dual.target_image = selected_paths[dual.target_path]
        /\ {dual.reference_path, dual.target_path} = {1, 2}
        /\ DualResized =>
              /\ dual.target_resized[1] <= dual.ref_image[1]
              /\ dual.target_resized[2] <= dual.ref_image[2]
        /\ dual.method_used = <<"center_placement">> =>
              LET offset_x == dual.transform_matrix[3]
                  offset_y == dual.transform_matrix[6]
              IN  /\ offset_x >= 0 /\ offset_y >= 0
                  /\ offset_y + dual.target_resized[1] <= dual.ref_image[1]
                  /\ offset_x + dual.target_resized[2] <= dual.ref_image[2]
        /\ dual.registered_target # NoShape =>
              /\ dual.registered_target = dual.ref_image
              /\ dual.mask = dual.ref_image

\* the scaled target was higher than the reference, was cut down to its height
\* and was placed at the center with room left in the width
C29_Witness ==
    /\ entry = "dual" /\ pc = "gd_returned"
    /\ dual.method_used = <<"center_placement">>
    /\ dual.registered_target = dual.ref_image
    /\ ScaledInt(dual.target_image[1], dual.scale_factor) > dual.ref_image[1]
    /\ dual.target_resized[2] < dual.ref_image[2]

----------------------------------------------------------------------------
(* gui/project_manager.py: a ProjectManager and the project folders. A       *)
(* project is known by its name, 1 or 2; last is the operation just done and *)
(* the current project it found.                                             *)

\* create_project's metadata, lines 60-67, known by the lengths of its lists
NewMetadata == [present |-> TRUE, processed_files |-> 0, visualizations_saved |-> 0]

\* ProjectManager() with the projects directory empty or holding folders of
\* earlier sessions, with or without content
InitProject ==
    /\ entry = "project"
    /\ logger = LoggerIdle
    /\ \E d \in [1..2 -> {NoDir, [NoDir EXCEPT !.exists = TRUE],
                          [NoDir EXCEPT !.exists = TRUE, !.exports = TRUE]}] :
          project = [ProjectIdle EXCEPT !.disk = d]
    /\ pc = "project_ready"
    /\ utr = UtrIdle /\ vsc = VscIdle /\ call = CallIdle /\ gui = GuiIdle
    /\ GroupUnused
    /\ DualUnused
    /\ CliUnused

Done(op) == [op |-> op, project |-> project.current_project]

ProjectFrame ==
    UNCHANGED <<entry, logger, pc, groupVars2, dualVars, cliVars, fnVars>>

\* create_project, lines 46-76: mkdir with exist_ok keeps what a folder holds
PM_CreateProject ==
    /\ entry = "project"
    /\ \E name \in 1..2 :
          project' = [project EXCEPT !.disk[name].exists = TRUE,
                                     !.current_project = name,
                                     !.project_metadata = NewMetadata,
                                     !.last = Done("create_project")]
    /\ ProjectFrame

\* add_processed_file, lines 91-102
PM_AddProcessedFile ==
    /\ entry = "project"
    /\ project.project_metadata.processed_files <= MaxOver
    /\ IF project.current_project = 0
       THEN project' = [project EXCEPT !.last = Done("add_processed_file")]
       ELSE project' = [project EXCEPT !.project_metadata.processed_files = @ + 1,
                                       !.last = Done("add_processed_file")]
    /\ ProjectFrame

\* add_visualization, lines 104-115
PM_AddVisualization ==
    /\ entry = "project"
    /\ project.project_metadata.visualizations_saved <= MaxOver
    /\ IF project.current_project = 0
       THEN project' = [project EXCEPT !.last = Done("add_visualization")]
       ELSE project' = [project EXCEPT !.project_metadata.visualizations_saved = @ + 1,
                                       !.last = Done("add_visualization")]
    /\ ProjectFrame

\* a file is saved into a subfolder of the current project: the registration's
\* output (main_window.py line 556), a visualization or an export
FS_SaveFile ==
    /\ entry = "project"
    /\ project.current_project # 0
    /\ project.disk[project.current_project].exists
    /\ \E folder \in {"registered", "visualizations", "exports"} :
          project' = [project EXCEPT
                        !.disk[project.current_project] =
                            IF folder = "registered" THEN [@ EXCEPT !.registered = TRUE]
                            ELSE IF folder = "visualizations"
                            THEN [@ EXCEPT !.visualizations = TRUE]
                            ELSE [@ EXCEPT !.exports = TRUE],
                        !.last = Done("save_file")]
    /\ ProjectFrame

\* has_saved_content looking at the registered folder only
has_saved_content_RegisteredOnly(pm) ==
    IF pm.current_project = 0 THEN FALSE
    ELSE LET dir == pm.disk[pm.current_project]
         IN  dir.exists /\ dir.registered

\* has_saved_content, lines 139-152
has_saved_content(pm) ==
    IF pm.current_project = 0 THEN FALSE
    ELSE LET dir == pm.disk[pm.current_project]
         IN  dir.exists /\ (dir.registered \/ dir.visualizations \/ dir.exports)

\* cleanup_empty_project, lines 154-167; rmtree may fail, which is only printed
PM_CleanupEmptyProject ==
    /\ entry = "project"
    /\ IF project.current_project = 0
       THEN project' = [project EXCEPT !.last = Done("cleanup_empty_project")]
       ELSE \E rmtree_ok \in BOOLEAN :
               project' = [project EXCEPT
                             !.disk[project.current_project] =
                                 IF ~has_saved_content(project) /\ rmtree_ok
                                 THEN NoDir ELSE @,
                             !.current_project = 0,
                             !.project_metadata = NoMetadata,
                             !.last = Done("cleanup_empty_project")]
    /\ ProjectFrame

NextProject ==
    \/ PM_CreateProject
    \/ PM_AddProcessedFile
    \/ PM_AddVisualization
    \/ FS_SaveFile
    \/ PM_CleanupEmptyProject

\* what one operation of the manager may do: a project folder disappears only
\* in cleanup_empty_project, only the current one and only with its three
\* subfolders empty; cleanup leaves no current project and empty metadata; with
\* no current project the three operations change nothing
ProjectStep ==
    entry = "project" =>
        /\ \A name \in 1..2 :
              (project.disk[name].exists /\ ~project'.disk[name].exists) =>
                 /\ project'.last.op = "cleanup_empty_project"
                 /\ name = project.current_project
                 /\ ~project.disk[name].registered
                 /\ ~project.disk[name].visualizations
                 /\ ~project.disk[name].exports
        /\ \A name \in 1..2 :
              project.disk[name].exists =>
                 /\ project.disk[name].registered => project'.disk[name].registered
                 /\ project.disk[name].visualizations => project'.disk[name].visualizations
                 /\ project.disk[name].exports => project'.disk[name].exports
        /\ project'.last.op = "cleanup_empty_project" =>
              /\ project'.current_project = 0
              /\ project'.project_metadata = NoMetadata
        /\ (project.current_project = 0
              /\ project'.last.op \in {"add_processed_file", "add_visualization",
                                       "cleanup_empty_project"}) =>
              /\ project'.current_project = 0
              /\ project'.project_metadata = project.project_metadata
              /\ project'.disk = project.disk

\* C30: over any sequence of create_project, add_processed_file,
\* add_visualization, cleanup_empty_project and saved files, cleanup removes
\* the current project folder only if its registered, visualizations and
\* exports folders are all empty at that moment, always leaves no current
\* project and empty metadata, and without a current project the three
\* operations change nothing.
C30_NeverDeletesSavedWork == [][ProjectStep]_vars

\* cleanup found project 1 with only a visualization in it, and left it there
C30_Witness ==
    /\ entry = "project"
    /\ project.last = [op |-> "cleanup_empty_project", project |-> 1]
    /\ project.disk[1].exists /\ project.disk[1].visualizations
    /\ ~project.disk[1].registered /\ ~project.disk[1].exports
    /\ project.current_project = 0

SpecGroup == InitGroup /\ [][NextGroup]_vars

SpecDual == InitDual /\ [][NextDual]_vars

SpecCli == InitCli /\ [][NextCli]_vars

SpecCompose == InitCompose /\ [][NextCompose]_vars

SpecValidate == InitValidate /\ [][NextValidate]_vars

SpecSave == InitSave /\ [][NextSave]_vars

SpecGui == InitGui /\ [][NextGui]_vars

SpecEstimate == InitEstimate /\ [][NextEstimate]_vars

SpecScale == InitScale /\ [][NextScale]_vars

SpecDiscover == InitDiscover /\ [][NextDiscover]_vars

SpecTk == InitTk /\ [][NextTk]_vars

SpecMatch == InitMatch /\ [][NextMatch]_vars

SpecSlic == InitSlic /\ [][NextSlic]_vars

SpecProject == InitProject /\ [][NextProject]_vars

\* every thread that can take a step eventually takes one
SpecLogger == InitLogger /\ [][NextLogger]_vars /\ WF_vars(NextLogger)

\* the three orchestrators: process_image_group, the dual registration and the
\* command line
InitPipeline == InitGroup \/ InitDual \/ InitCli

NextPipeline == NextGroup \/ NextDual \/ NextCli

SpecPipeline == InitPipeline /\ [][NextPipeline]_vars

Init == InitGroup \/ InitDual \/ InitCli \/ InitCompose \/ InitValidate \/ InitSave
           \/ InitGui \/ InitEstimate \/ InitScale \/ InitDiscover \/ InitTk
           \/ InitMatch \/ InitSlic \/ InitLogger \/ InitProject

Next == NextGroup \/ NextDual \/ NextCli \/ NextCompose \/ NextValidate \/ NextSave
           \/ NextGui \/ NextEstimate \/ NextScale \/ NextDiscover \/ NextTk
           \/ NextMatch \/ NextSlic \/ NextLogger \/ NextProject

Spec == Init /\ [][Next]_vars

====
